---- MODULE Spec2Model ----
(***************************************************************************)
(* Verification model of the query-bot plugin framework.                   *)
(*                                                                         *)
(* Part 1: TokenService (plugins/common/services/token.py), the one-time   *)
(*         admin tokens.                                                    *)
(* Part 2: the admin control protocol (plugins/status_control).            *)
(* Part 3: the plugin dispatch wrappers (plugins/common/plugin_base.py).   *)
(* Part 4: BanService loading, migration and initialization.               *)
(* Part 5: GameServiceBase and the two games (math_soup, high_noon).       *)
(* Part 6: the service singletons (plugins/common/base.py).                *)
(* Part 7: PluginRegistry.                                                 *)
(* Part 8: ChatService, the chat history.                                  *)
(* Part 9: ChatService, the cooldown, and the random reply.                *)
(*                                                                         *)
(* Each part has its own next-state relation over the shared variables;    *)
(* the variables a part does not use stay at their initial value.          *)
(***************************************************************************)
EXTENDS Integers, Sequences, FiniteSets, TLC

VARIABLES
    now,        \* the reading of time.time()
    tokens,     \* TokenService._tokens: user_id -> TokenInfo (a dict)
    banned,     \* BanService._banned_users (in memory)
    banFile,    \* the ids held by data/banned.json
    flags,      \* config.<feature>_enabled, by feature name
    last,       \* the service call made by the latest step and what it returned
    hist,       \* history of the token issued to the watched user
    req,        \* the latest request that changed the services' state
    pc,         \* per asyncio task: where its dispatch wrapper stands
    ctx,        \* per asyncio task: _current_event_var in the task's context
    run,        \* per asyncio task: the wrapper's locals and what it did
    banSvc,     \* BanService._initialized, and the files in the data directory
    banLast,    \* the latest call of the ban service and what it returned
    games,      \* GameServiceBase._games of each game service: group_id -> state object
    heap,       \* the game state objects created so far, by object identity
    asking,     \* the ask_question calls that are waiting for the AI judge
    gameLast,   \* the latest call of a game service and what it returned
    instances,  \* ServiceBase._instances and GameServiceBase._instances
    repo,       \* MathPuzzleService._repository: the ConceptRepository it holds
    instLast,   \* the latest get_instance call and what it returned
    registry,   \* PluginRegistry._plugins and PluginRegistry._commands
    regLast,    \* the latest call of the plugin registry and what it returned
    history,    \* ChatService._history: group_id -> deque of ChatMessage
    chatLast,   \* the latest call of the chat service and what it returned
    cooldown,   \* ChatService._cooldown: group_id -> time of the last set_cooldown
    replying,   \* the random-reply handlers that are waiting for the AI
    cdLast      \* the latest cooldown call or random-reply step and what it did

(***************************************************************************)
(* Bounds and inputs                                                       *)
(***************************************************************************)
\* Clock readings are taken near 0 and near the expiry window.
MaxTick == 1
\* secrets.token_urlsafe draws from 2^64 values; the model draws from a few,
\* so that a regenerated token may or may not repeat an earlier value.
NumTokenValues == 2

TOKEN_EXPIRE_SECONDS == 300

\* Sender ids that occur in events.  AdminIds is config.admin_user_ids_set.
Users == {1, 2, 3}
AdminIds == {1, 2}

\* Feature names that plugins declare (a subset of CONTROLLABLE_FEATURES).
Features == {"math", "random"}

TokenValues == 1 .. NumTokenValues
ClockValues == (0 .. MaxTick) \cup {TOKEN_EXPIRE_SECONDS + i : i \in 0 .. MaxTick}

\* Token values start at 1; 0 stands for "no value" in the records below.

(***************************************************************************)
(* Python dict helpers                                                     *)
(***************************************************************************)
DictDel(d, k) == [x \in (DOMAIN d) \ {k} |-> d[x]]
DictPut(d, k, v) == [x \in (DOMAIN d) \cup {k} |-> IF x = k THEN v ELSE d[x]]

(***************************************************************************)
(* Part 1.  TokenService                                                   *)
(***************************************************************************)
TokenInfo(tok, exp) == [token |-> tok, expire_time |-> exp, used |-> FALSE]

\* A regeneration that leaves an existing record in place.
generate_token_keep_old(toks, user_id, tok, ct) ==
    IF user_id \in DOMAIN toks
    THEN toks
    ELSE DictPut(toks, user_id, TokenInfo(tok, ct + TOKEN_EXPIRE_SECONDS))

\* generate_token: drop the user's old record, store a new one that expires
\* TOKEN_EXPIRE_SECONDS after the current time.  tok is the random value.
generate_token(toks, user_id, tok, ct) ==
    LET cleared == IF user_id \in DOMAIN toks THEN DictDel(toks, user_id) ELSE toks
    IN  DictPut(cleared, user_id, TokenInfo(tok, ct + TOKEN_EXPIRE_SECONDS))

\* A verification that does not consume the record.
verify_token_not_consumed(toks, user_id, tok, ct) ==
    IF user_id \notin DOMAIN toks
    THEN [ret |-> FALSE, toks |-> toks]
    ELSE IF ct > toks[user_id].expire_time
    THEN [ret |-> FALSE, toks |-> DictDel(toks, user_id)]
    ELSE [ret |-> toks[user_id].token = tok, toks |-> toks]

\* A verification that does not look at the expiry time.
verify_token_no_expiry(toks, user_id, tok, ct) ==
    IF user_id \notin DOMAIN toks
    THEN [ret |-> FALSE, toks |-> toks]
    ELSE IF toks[user_id].token # tok
    THEN [ret |-> FALSE, toks |-> toks]
    ELSE [ret |-> TRUE, toks |-> DictDel(toks, user_id)]

\* verify_token: the return value and the dict afterwards.
verify_token(toks, user_id, tok, ct) ==
    IF user_id \notin DOMAIN toks
    THEN [ret |-> FALSE, toks |-> toks]
    ELSE LET token_info == toks[user_id] IN
         IF token_info.used
         THEN [ret |-> FALSE, toks |-> DictDel(toks, user_id)]
         ELSE IF ct > token_info.expire_time
         THEN [ret |-> FALSE, toks |-> DictDel(toks, user_id)]
         ELSE IF token_info.token # tok
         THEN [ret |-> FALSE, toks |-> toks]
         ELSE [ret |-> TRUE, toks |-> DictDel(toks, user_id)]

\* has_valid_token: a read; the dict is not changed.
has_valid_token(toks, user_id, ct) ==
    IF user_id \notin DOMAIN toks
    THEN FALSE
    ELSE IF toks[user_id].used
    THEN FALSE
    ELSE IF ct > toks[user_id].expire_time
    THEN FALSE
    ELSE TRUE

(***************************************************************************)
(* History of the watched user's token.  watch is any one user; what is    *)
(* recorded is what the caller of the service saw: the value returned by   *)
(* the latest generate_token(watch), when it was returned, the value it    *)
(* replaced, and the verify_token calls made with it since.                *)
(***************************************************************************)
Call(op, user, tok, ret) == [op |-> op, user |-> user, token |-> tok, ret |-> ret]

HistInit(w) ==
    [watch |-> w,
     tok |-> 0,        \* value returned by the latest generate_token(watch)
     at |-> 0,             \* clock reading when it was returned
     prev |-> 0,       \* the never-verified value that generate replaced
     tries |-> 0,          \* verify_token(watch, tok) calls since (capped at 2)
     oks |-> 0,            \* those that returned True (capped at 2)
     prevTried |-> FALSE,  \* verify_token(watch, prev) was called since
     lateSeen |-> FALSE,   \* a verify_token(watch, tok) came after the window
     subs |-> 0]           \* status-control requests of watch that passed the
                           \* token check since (capped at 2)

Min(a, b) == IF a < b THEN a ELSE b

HistGenerate(h, user_id, tok, ct) ==
    IF user_id # h.watch THEN h
    ELSE [h EXCEPT !.tok = tok, !.at = ct,
                   !.prev = IF h.tok # 0 /\ h.oks = 0 THEN h.tok ELSE 0,
                   !.tries = 0, !.oks = 0, !.prevTried = FALSE, !.lateSeen = FALSE,
                   !.subs = 0]

HistVerify(h, user_id, tok, ct, ret) ==
    IF user_id # h.watch \/ h.tok = 0 THEN h
    ELSE [h EXCEPT
            !.tries = IF tok = h.tok THEN Min(h.tries + 1, 2) ELSE h.tries,
            !.oks = IF ret THEN Min(h.oks + 1, 2) ELSE h.oks,
            !.prevTried = h.prevTried \/ (tok = h.prev /\ tok # h.tok),
            !.lateSeen = h.lateSeen \/ (tok = h.tok /\ ct > h.at + TOKEN_EXPIRE_SECONDS)]

TokenInit ==
    /\ now = 0
    /\ tokens = << >>
    /\ last = Call("init", 0, 0, FALSE)

\* what the token service never touches
taskVars == <<pc, ctx, run>>
gameVars == <<games, heap, asking, gameLast>>
instVars == <<instances, repo, instLast>>
regVars == <<registry, regLast>>
chatVars == <<history, chatLast>>
cdVars == <<cooldown, replying, cdLast>>
restVars == <<gameVars, instVars, regVars, chatVars, cdVars>>
serviceVars == <<banSvc, banLast, restVars>>
notTokenVars == <<banned, banFile, flags, req, taskVars, serviceVars>>

GenerateToken(u) ==
    \E tok \in TokenValues :
        /\ tokens' = generate_token(tokens, u, tok, now)
        /\ last' = Call("generate", u, tok, TRUE)
        /\ hist' = HistGenerate(hist, u, tok, now)
        /\ UNCHANGED <<now, notTokenVars>>

VerifyToken(u) ==
    \E tok \in TokenValues :
        LET r == verify_token(tokens, u, tok, now) IN
        /\ tokens' = r.toks
        /\ last' = Call("verify", u, tok, r.ret)
        /\ hist' = HistVerify(hist, u, tok, now, r.ret)
        /\ UNCHANGED <<now, notTokenVars>>

HasValidToken(u) ==
    /\ last' = Call("has_valid", u, 0, has_valid_token(tokens, u, now))
    /\ UNCHANGED <<now, tokens, hist, notTokenVars>>

\* time.time() read later: the clock has moved on.
Tick ==
    /\ \E t \in ClockValues : t > now /\ now' = t
    /\ last' = Call("tick", 0, 0, FALSE)
    /\ UNCHANGED <<tokens, hist, notTokenVars>>


(***************************************************************************)
(* Gates of the dispatch wrappers (plugin_base.py), shared by parts 2, 3   *)
(***************************************************************************)
\* feature_name = None
NoFeature == ""

\* BanService.is_banned on an initialized service
is_banned(bn, user_id) == user_id \in bn

_check_permission(bn, user_id) == ~is_banned(bn, user_id)

_check_feature(fl, feature_name) ==
    IF feature_name = NoFeature THEN TRUE ELSE fl[feature_name]

Gate(decision, checks) == [decision |-> decision, checks |-> checks]

\* A command wrapper that tests the feature flag first.
command_gate_feature_first(bn, fl, feature_name, user_id) ==
    IF ~_check_feature(fl, feature_name) THEN Gate("feature_off", <<"feature">>)
    ELSE IF ~_check_permission(bn, user_id)
    THEN Gate("banned", <<"feature", "permission">>)
    ELSE Gate("handle", <<"feature", "permission">>)

\* The checks of the command wrapper, in its order: which of
\* finish("...banned"), finish("...feature off") or plugin.handle it reaches,
\* and the checks it ran to decide.
command_gate(bn, fl, feature_name, user_id) ==
    IF ~_check_permission(bn, user_id) THEN Gate("banned", <<"permission">>)
    ELSE IF ~_check_feature(fl, feature_name)
    THEN Gate("feature_off", <<"permission", "feature">>)
    ELSE Gate("handle", <<"permission", "feature">>)

\* A message wrapper that does not ask the ban list.
message_gate_no_permission(bn, fl, feature_name, user_id) ==
    IF ~_check_feature(fl, feature_name) THEN Gate("feature_off", <<"feature">>)
    ELSE Gate("handle", <<"feature">>)

\* The checks of the message wrapper, in its order; both refusals are silent.
message_gate(bn, fl, feature_name, user_id) ==
    IF ~_check_feature(fl, feature_name) THEN Gate("feature_off", <<"feature">>)
    ELSE IF ~_check_permission(bn, user_id)
    THEN Gate("banned", <<"feature", "permission">>)
    ELSE Gate("handle", <<"feature", "permission">>)

(***************************************************************************)
(* Part 2.  BanService.ban / unban and the admin control protocol          *)
(***************************************************************************)
\* _save_banned_list: the write succeeds (saved) or raises and is reported.
_save_banned_list(file, users, saved) ==
    [ok |-> saved, file |-> IF saved THEN users ELSE file]

\* A ban that does not test membership first.
ban_always_adds(bn, file, user_id, saved) ==
    LET added == bn \cup {user_id}
        save_result == _save_banned_list(file, added, saved)
    IN  [ret |-> IF save_result.ok THEN "success_true" ELSE "fail",
         banned |-> added, file |-> save_result.file]

\* A ban that writes the list it took before adding the user.
ban_saves_stale(bn, file, user_id, saved) ==
    IF user_id \in bn
    THEN [ret |-> "success_false", banned |-> bn, file |-> file]
    ELSE LET save_result == _save_banned_list(file, bn, saved) IN
         [ret |-> IF save_result.ok THEN "success_true" ELSE "fail",
          banned |-> bn \cup {user_id}, file |-> save_result.file]

ban(bn, file, user_id, saved) ==
    IF user_id \in bn
    THEN [ret |-> "success_false", banned |-> bn, file |-> file]
    ELSE LET added == bn \cup {user_id}
             save_result == _save_banned_list(file, added, saved)
         IN  [ret |-> IF save_result.ok THEN "success_true" ELSE "fail",
              banned |-> added, file |-> save_result.file]

unban(bn, file, user_id, saved) ==
    IF user_id \notin bn
    THEN [ret |-> "success_false", banned |-> bn, file |-> file]
    ELSE LET removed == bn \ {user_id}
             save_result == _save_banned_list(file, removed, saved)
         IN  [ret |-> IF save_result.ok THEN "success_true" ELSE "fail",
              banned |-> removed, file |-> save_result.file]

\* Argument texts of a status-control message.  The ids named in ban and
\* unban messages are those of an admin and of a non-admin.
BanTargets == {2, 3}
IdTexts == {ToString(u) : u \in BanTargets}
ArgTexts == {"", "abc"} \cup IdTexts \cup Features

\* int(user_id_str.strip()): the id, or 0 for ValueError
ParseUserId(text) ==
    IF text \in IdTexts THEN CHOOSE u \in BanTargets : ToString(u) = text ELSE 0

\* The first entry of CONTROLLABLE_FEATURES that the target matches, "" for
\* none.  On ArgTexts only a feature key matches, and it matches itself first.
MatchFeature(target) == IF target \in Features THEN target ELSE ""

\* The parsed message: token 0 is the empty argument string, action "" a
\* message that ends after the token.
StatusArgs ==
    {[token |-> 0, action |-> "", arg |-> ""]}
    \cup [token : TokenValues, action : {"", "status", "system", "other"}, arg : {""}]
    \cup [token : TokenValues, action : {"toggle"}, arg : {"", "abc"} \cup Features]
    \cup [token : TokenValues, action : {"ban", "unban"}, arg : {"", "abc"} \cup IdTexts]

Outcome(toks, bn, file, fl, routed, reply) ==
    [tokens |-> toks, banned |-> bn, file |-> file, flags |-> fl,
     routed |-> routed, reply |-> reply]

_handle_toggle(fl, arg) ==
    IF arg = "" THEN [flags |-> fl, reply |-> "toggle_usage"]
    ELSE LET matched == MatchFeature(arg) IN
         IF matched = "" THEN [flags |-> fl, reply |-> "unknown_feature"]
         ELSE [flags |-> [fl EXCEPT ![matched] = ~fl[matched]], reply |-> "toggled"]

_handle_ban(bn, file, arg, saved) ==
    IF arg = "" THEN [banned |-> bn, file |-> file, reply |-> "ban_usage"]
    ELSE LET target == ParseUserId(arg) IN
         IF target = 0 THEN [banned |-> bn, file |-> file, reply |-> "id_not_a_number"]
         ELSE IF is_banned(bn, target)
         THEN [banned |-> bn, file |-> file, reply |-> "already_banned"]
         ELSE LET result == ban(bn, file, target, saved) IN
              [banned |-> result.banned, file |-> result.file,
               reply |-> IF result.ret = "fail" THEN "ban_failed" ELSE "ban_done"]

_handle_unban(bn, file, arg, saved) ==
    IF arg = "" THEN [banned |-> bn, file |-> file, reply |-> "unban_usage"]
    ELSE LET target == ParseUserId(arg) IN
         IF target = 0 THEN [banned |-> bn, file |-> file, reply |-> "id_not_a_number"]
         ELSE IF ~is_banned(bn, target)
         THEN [banned |-> bn, file |-> file, reply |-> "not_banned"]
         ELSE LET result == unban(bn, file, target, saved) IN
              [banned |-> result.banned, file |-> result.file,
               reply |-> IF result.ret = "fail" THEN "unban_failed" ELSE "unban_done"]

\* The routing after the token check (status_control lines 123-144).
StatusControl_route(toks, bn, file, fl, args, saved) ==
    IF args.action = "" THEN Outcome(toks, bn, file, fl, TRUE, "status")
    ELSE IF args.action = "toggle"
    THEN LET t == _handle_toggle(fl, args.arg) IN
         Outcome(toks, bn, file, t.flags, TRUE, t.reply)
    ELSE IF args.action = "ban"
    THEN LET b == _handle_ban(bn, file, args.arg, saved) IN
         Outcome(toks, b.banned, b.file, fl, TRUE, b.reply)
    ELSE IF args.action = "unban"
    THEN LET b == _handle_unban(bn, file, args.arg, saved) IN
         Outcome(toks, b.banned, b.file, fl, TRUE, b.reply)
    ELSE IF args.action = "status" THEN Outcome(toks, bn, file, fl, TRUE, "status")
    ELSE IF args.action = "system" THEN Outcome(toks, bn, file, fl, TRUE, "system_status")
    ELSE Outcome(toks, bn, file, fl, TRUE, "unknown_action")

\* A handler that routes the subcommand whatever verify_token returned.
StatusControl_handle_unchecked(toks, bn, file, fl, user_id, args, ct, saved) ==
    IF user_id \notin AdminIds
    THEN Outcome(toks, bn, file, fl, FALSE, "not_admin")
    ELSE IF args.token = 0
    THEN Outcome(toks, bn, file, fl, FALSE, "status")
    ELSE StatusControl_route(verify_token(toks, user_id, args.token, ct).toks,
                             bn, file, fl, args, saved)

\* StatusControlPlugin.handle: the state it leaves, whether it reached the
\* routing of the subcommand, and the reply it sends.
StatusControl_handle(toks, bn, file, fl, user_id, args, ct, saved) ==
    IF user_id \notin AdminIds
    THEN Outcome(toks, bn, file, fl, FALSE,
                 IF AdminIds = {} THEN "whitelist_unset" ELSE "not_admin")
    ELSE IF args.token = 0
    THEN Outcome(toks, bn, file, fl, FALSE, "status")
    ELSE LET v == verify_token(toks, user_id, args.token, ct) IN
         IF ~v.ret
         THEN Outcome(v.toks, bn, file, fl, FALSE,
                      IF has_valid_token(v.toks, user_id, ct)
                      THEN "token_wrong" ELSE "token_invalid")
         ELSE StatusControl_route(v.toks, bn, file, fl, args, saved)

\* A handler that issues the token in any channel.
RequestToken_handle_any_channel(toks, user_id, private, tok, ct) ==
    IF user_id \notin AdminIds
    THEN [tokens |-> toks, reply |-> "not_admin"]
    ELSE [tokens |-> generate_token(toks, user_id, tok, ct), reply |-> "token_sent"]

\* RequestTokenPlugin.handle; private: isinstance(event, PrivateMessageEvent)
RequestToken_handle(toks, user_id, private, tok, ct) ==
    IF ~private
    THEN [tokens |-> toks, reply |-> "ask_in_private"]
    ELSE IF user_id \notin AdminIds
    THEN [tokens |-> toks, reply |-> "not_admin"]
    ELSE [tokens |-> generate_token(toks, user_id, tok, ct), reply |-> "token_sent"]

\* A request as the platform delivered it: the plugin it matched, the sender,
\* the channel, the token text in it (for request_token: the value drawn).
Request(plugin, user_id, private, tok) ==
    [plugin |-> plugin, user |-> user_id, private |-> private, token |-> tok]

\* After import: initialize_common has loaded the ban list from the file,
\* every feature flag has its default (True).
AdminInit ==
    /\ banned = {}
    /\ banFile = {}
    /\ flags = [f \in Features |-> TRUE]
    /\ req = Request("none", 0, FALSE, 0)

HistIssued(h, user_id, tok, ct) ==
    IF user_id # h.watch THEN h
    ELSE [h EXCEPT !.tok = tok, !.at = ct, !.subs = 0]

HistRouted(h, user_id, routed) ==
    IF user_id # h.watch \/ ~routed THEN h
    ELSE [h EXCEPT !.subs = Min(h.subs + 1, 2)]

adminState == <<tokens, banned, banFile, flags>>

\* what the admin protocol never touches
notAdminVars == <<last, taskVars, serviceVars>>

\* req names the latest request that changed the services' state; a request
\* that only sent a reply leaves no trace in the state.
Recorded(r) == req' = IF adminState' # adminState THEN r ELSE req

\* A "/申请令牌" message handled by the command wrapper.  Both admin plugins
\* declare no feature flag.  The handler changes state before its first
\* await, so the request is one step.
RequestTokenCommand ==
    \E user_id \in Users, private \in BOOLEAN, tok \in TokenValues :
        LET gate == command_gate(banned, flags, NoFeature, user_id).decision
            h == RequestToken_handle(tokens, user_id, private, tok, now)
        IN  /\ tokens' = IF gate = "handle" THEN h.tokens ELSE tokens
            /\ hist' = IF gate = "handle" /\ h.reply = "token_sent"
                       THEN HistIssued(hist, user_id, tok, now) ELSE hist
            /\ UNCHANGED <<now, banned, banFile, flags, notAdminVars>>
            /\ Recorded(Request("request_token", user_id, private, tok))

\* A "/状态控制 ..." message handled by the command wrapper.  saved: whether
\* the write of banned.json succeeds, should the request come to it.
StatusControlCommand ==
    \E user_id \in Users, args \in StatusArgs :
      \E saved \in IF args.action \in {"ban", "unban"} THEN BOOLEAN ELSE {TRUE} :
        LET gate == command_gate(banned, flags, NoFeature, user_id).decision
            h == StatusControl_handle(tokens, banned, banFile, flags,
                                      user_id, args, now, saved)
        IN  /\ IF gate = "handle"
               THEN /\ tokens' = h.tokens
                    /\ banned' = h.banned
                    /\ banFile' = h.file
                    /\ flags' = h.flags
                    /\ hist' = HistRouted(hist, user_id, h.routed)
               ELSE UNCHANGED <<tokens, banned, banFile, flags, hist>>
            /\ UNCHANGED <<now, notAdminVars>>
            /\ Recorded(Request("status_control", user_id, FALSE, args.token))

\* The same message as its sender sees it: last records the reply that was
\* sent ("none" when the wrapper dropped the message) and whether the token
\* in the message was one that verify_token accepts for the sender (not the
\* sender and the token themselves).
StatusControlSeen(user_id, args) ==
      \E saved \in IF args.action \in {"ban", "unban"} THEN BOOLEAN ELSE {TRUE} :
        LET gate == command_gate(banned, flags, NoFeature, user_id).decision
            h == StatusControl_handle(tokens, banned, banFile, flags,
                                      user_id, args, now, saved)
            verified == verify_token(tokens, user_id, args.token, now).ret
        IN  /\ IF gate = "handle"
               THEN /\ tokens' = h.tokens
                    /\ banned' = h.banned
                    /\ banFile' = h.file
                    /\ flags' = h.flags
                    /\ hist' = HistRouted(hist, user_id, h.routed)
               ELSE UNCHANGED <<tokens, banned, banFile, flags, hist>>
            /\ last' = Call("status_control", 0, 0,
                            [reply |-> IF gate = "handle" THEN h.reply ELSE "none",
                             verified |-> gate = "handle" /\ verified])
            /\ UNCHANGED <<now, taskVars, serviceVars>>
            /\ Recorded(Request("status_control", user_id, FALSE, args.token))

\* The clock as the admin protocol sees it: before or after a token expires.
AdminTick ==
    /\ now < TOKEN_EXPIRE_SECONDS + 1
    /\ now' = TOKEN_EXPIRE_SECONDS + 1
    /\ UNCHANGED <<tokens, banned, banFile, flags, hist, req, notAdminVars>>

(***************************************************************************)
(* Part 3.  The dispatch wrappers of PluginBase                            *)
(*                                                                         *)
(* Every incoming event is handled in an asyncio task of its own.  A task  *)
(* runs the wrapper of the plugin the event matched; it is suspended at    *)
(* each await, and the steps of other tasks come in between.               *)
(***************************************************************************)
Tasks == {1, 2}

\* the users whose messages are dispatched: one who is never banned and one
\* who may be
Senders == {1, 2}

\* The plugins of the repository, by how they are registered: two command
\* plugins (with and without a feature flag) and the message plugin.
Plugins == {"math_definition", "help", "random_reply"}
PluginKind(p) == IF p = "random_reply" THEN "message" ELSE "command"
PluginFeature(p) ==
    IF p = "math_definition" THEN "math"
    ELSE IF p = "random_reply" THEN "random"
    ELSE NoFeature

\* An event object; the platform numbers the messages that are in flight.
Event(user_id, message_id) == [user_id |-> user_id, message_id |-> message_id]
\* the ContextVar's default, None
NoEvent == Event(0, 0)

\* ContextVar.set / get / reset(token) in the context of task t.
ContextVar_set_shared(c, t, value) == [x \in DOMAIN c |-> value]

ContextVar_set(c, t, value) == [c EXCEPT ![t] = value]

ContextVar_get(c, t) == c[t]

ContextVar_reset(c, t, old_value) == ContextVar_set(c, t, old_value)

\* A wrapper that resets the variable at the end of its body, not in finally.
wrapper_exit_no_finally(c, t, old_value, exit) ==
    IF exit = "return" THEN ContextVar_reset(c, t, old_value) ELSE c

\* finally: _current_event_var.reset(token), on every way out of the wrapper
\* (exit: "return", or the exception that propagates)
wrapper_exit(c, t, old_value, exit) == ContextVar_reset(c, t, old_value)

\* What the wrapper does when plugin.handle / handle_message ends; raised is
\* "none" (it returned), "finished" (FinishedException) or "error" (any other
\* Exception).  next "report": await plugin.handle_error(e).
WrapperEnd(next, exit) == [next |-> next, exit |-> exit]

\* A command wrapper without the except Exception clause.
command_handler_end_uncaught(raised) ==
    IF raised = "none" THEN WrapperEnd("exit", "return")
    ELSE WrapperEnd("exit", raised)

command_handler_end(raised) ==
    IF raised = "none" THEN WrapperEnd("exit", "return")
    ELSE IF raised = "finished" THEN WrapperEnd("exit", "finished")
    ELSE WrapperEnd("report", "none")

\* FinishedException is an Exception: except Exception: pass takes it too.
message_handler_end(raised) == WrapperEnd("exit", "return")

RunInit ==
    [plugin |-> "none",
     event |-> NoEvent,
     old_value |-> NoEvent,   \* held by the token of _current_event_var.set
     exit |-> "none",         \* how the wrapper ended
     \* what is recorded about the run:
     before |-> NoEvent,      \* the ContextVar's value when the wrapper started
     wasBanned |-> FALSE,     \* the sender was banned when the checks ran
     wasEnabled |-> TRUE,     \* the declared flag (if any) was on at that time
     checks |-> << >>,        \* the checks the wrapper ran
     invoked |-> FALSE,       \* plugin.handle / handle_message was called
     raised |-> "none",       \* what it raised
     replies |-> << >>,       \* the replies the wrapper itself issued
     read |-> FALSE,          \* the handler has read _current_event
     seen |-> NoEvent,        \* the value it read last
     peerDone |-> FALSE]      \* another wrapper had ended before that read

TaskInit ==
    /\ pc = [t \in Tasks |-> "idle"]
    /\ ctx = [t \in Tasks |-> NoEvent]
    /\ run = [t \in Tasks |-> RunInit]

\* what the wrappers never touch
notDispatchVars == <<now, tokens, last, hist, req, serviceVars>>

\* The wrapper of plugin p starts on an event of sender user_id: it sets the
\* context variable, runs its checks and calls the handler, up to the first
\* await (finish of a refusal, or inside the handler).
Begin(t, p, user_id) ==
    LET event == Event(user_id, t)
        gate == IF PluginKind(p) = "command"
                THEN command_gate(banned, flags, PluginFeature(p), user_id)
                ELSE message_gate(banned, flags, PluginFeature(p), user_id)
        started == [RunInit EXCEPT
                      !.plugin = p, !.event = event, !.old_value = ctx[t],
                      !.before = ctx[t],
                      !.wasBanned = user_id \in banned,
                      !.wasEnabled = (PluginFeature(p) = NoFeature
                                      \/ flags[PluginFeature(p)]),
                      !.checks = gate.checks]
        entered == ContextVar_set(ctx, t, event)
    IN  /\ pc[t] = "idle"
        /\ IF gate.decision = "handle"
           THEN /\ pc' = [pc EXCEPT ![t] = "handling"]
                /\ ctx' = entered
                /\ run' = [run EXCEPT ![t] = [started EXCEPT !.invoked = TRUE]]
           ELSE IF PluginKind(p) = "command"
           THEN \* await plugin.finish(<refusal>)
                /\ pc' = [pc EXCEPT ![t] = "finishing"]
                /\ ctx' = entered
                /\ run' = [run EXCEPT ![t] =
                              [started EXCEPT !.replies = <<gate.decision>>]]
           ELSE \* return, through finally
                /\ pc' = [pc EXCEPT ![t] = "done"]
                /\ ctx' = wrapper_exit(entered, t, started.old_value, "return")
                /\ run' = [run EXCEPT ![t] = [started EXCEPT !.exit = "return"]]
        /\ UNCHANGED <<banned, banFile, flags, notDispatchVars>>

\* The handler calls self.reply(...): it reads _current_event and awaits send.
HandlerReply(t) ==
    /\ pc[t] = "handling"
    /\ run' = [run EXCEPT ![t].read = TRUE,
                          ![t].seen = ContextVar_get(ctx, t),
                          ![t].peerDone = \E o \in Tasks \ {t} : pc[o] = "done"]
    /\ UNCHANGED <<pc, ctx, banned, banFile, flags, notDispatchVars>>

\* The handler returns or raises, and the wrapper runs on to its next await
\* or to its end.
HandlerEnd(t, raised) ==
    LET end == IF PluginKind(run[t].plugin) = "command"
               THEN command_handler_end(raised)
               ELSE message_handler_end(raised)
    IN  /\ pc[t] = "handling"
        /\ IF end.next = "report"
           THEN \* handle_error: await self.finish("处理出错: ...")
                /\ pc' = [pc EXCEPT ![t] = "finishing"]
                /\ run' = [run EXCEPT ![t].raised = raised,
                                      ![t].replies = Append(@, "error")]
                /\ UNCHANGED ctx
           ELSE /\ pc' = [pc EXCEPT ![t] = "done"]
                /\ run' = [run EXCEPT ![t].raised = raised, ![t].exit = end.exit]
                /\ ctx' = wrapper_exit(ctx, t, run[t].old_value, end.exit)
        /\ UNCHANGED <<banned, banFile, flags, notDispatchVars>>

\* matcher.finish sends its message and raises FinishedException; if the send
\* fails, the platform's error is raised in its place.  Either leaves the
\* wrapper through finally.
FinishRaises(t, sent) ==
    LET exit == IF sent THEN "finished" ELSE "send_failed" IN
    /\ pc[t] = "finishing"
    /\ pc' = [pc EXCEPT ![t] = "done"]
    /\ run' = [run EXCEPT ![t].exit = exit]
    /\ ctx' = wrapper_exit(ctx, t, run[t].old_value, exit)
    /\ UNCHANGED <<banned, banFile, flags, notDispatchVars>>

\* The task takes up the next event; its context is as the wrapper left it.
NextEvent(t) ==
    /\ pc[t] = "done"
    /\ pc' = [pc EXCEPT ![t] = "idle"]
    /\ run' = [run EXCEPT ![t] = RunInit]
    /\ UNCHANGED <<ctx, banned, banFile, flags, notDispatchVars>>

\* Meanwhile an admin's status-control request bans or unbans a user, or
\* toggles a feature.
AdminBans(user_id) ==
    /\ \E saved \in BOOLEAN :
          LET result == ban(banned, banFile, user_id, saved) IN
          banned' = result.banned /\ banFile' = result.file
    /\ UNCHANGED <<flags, taskVars, notDispatchVars>>

AdminUnbans(user_id) ==
    /\ \E saved \in BOOLEAN :
          LET result == unban(banned, banFile, user_id, saved) IN
          banned' = result.banned /\ banFile' = result.file
    /\ UNCHANGED <<flags, taskVars, notDispatchVars>>

AdminToggles(feature) ==
    /\ flags' = _handle_toggle(flags, feature).flags
    /\ UNCHANGED <<banned, banFile, taskVars, notDispatchVars>>

\* a step of task t's wrapper
TaskStep(t) ==
    \/ HandlerReply(t)
    \/ \E raised \in {"none", "finished", "error"} : HandlerEnd(t, raised)
    \/ \E sent \in BOOLEAN : FinishRaises(t, sent)

(***************************************************************************)
(* Part 4.  BanService: loading, migration and initialization              *)
(*                                                                         *)
(* The service's state is its in-memory set, the ids in data/banned.json   *)
(* and banSvc: the _initialized flag, whether banned.json exists, and the  *)
(* legacy data/banned.pkl with the ids it holds.                           *)
(***************************************************************************)
BanState(bn, file, svc) == [banned |-> bn, file |-> file, svc |-> svc]

\* BanService() on a data directory: nothing is loaded yet.  loads counts
\* the runs of the body of initialize; migration and legacy record what
\* _migrate_from_pickle did and the ids banned.pkl held when it started.
BanSvcNew(json, pkl, pklIds) ==
    [initialized |-> FALSE, json |-> json, pkl |-> pkl, pklIds |-> pklIds,
     loads |-> 0, migration |-> "none", legacy |-> {}]

Loaded(ret, s) == [ret |-> ret, s |-> s]

_get_banned_file_path(svc) ==
    IF svc.json THEN "json" ELSE IF svc.pkl THEN "pkl" ELSE "json"

\* readable: pickle.load succeeds and gives a list.  The result of
\* _save_banned_list is not looked at: unlink follows in either case.
_migrate_from_pickle(s, readable, saved) ==
    IF ~readable
    THEN Loaded({}, [s EXCEPT !.svc.migration = "unread",
                              !.svc.legacy = s.svc.pklIds])
    ELSE LET data == s.svc.pklIds
             save_result == _save_banned_list(s.file, data, saved)
         IN  Loaded(data,
                    [s EXCEPT !.file = save_result.file,
                              !.svc.json = @ \/ save_result.ok,
                              !.svc.pkl = FALSE,
                              !.svc.pklIds = {},
                              !.svc.migration =
                                  IF save_result.ok THEN "done" ELSE "unsaved",
                              !.svc.legacy = data])

\* readable (of banned.json): json.load succeeds and gives a list
_load_banned_list(s, readable, saved) ==
    LET banned_file == _get_banned_file_path(s.svc) IN
    IF banned_file = "json" /\ ~s.svc.json THEN Loaded({}, s)
    ELSE IF banned_file = "pkl" THEN _migrate_from_pickle(s, readable, saved)
    ELSE Loaded(IF readable THEN s.file ELSE {}, s)

\* An initialize that does not look at the flag.
BanService_initialize_unguarded(s, readable, saved) ==
    LET loaded == _load_banned_list(s, readable, saved) IN
    [loaded.s EXCEPT !.banned = loaded.ret,
                     !.svc.initialized = TRUE,
                     !.svc.loads = Min(@ + 1, 2)]

BanService_initialize(s, readable, saved) ==
    IF s.svc.initialized THEN s
    ELSE LET loaded == _load_banned_list(s, readable, saved) IN
         [loaded.s EXCEPT !.banned = loaded.ret,
                          !.svc.initialized = TRUE,
                          !.svc.loads = Min(@ + 1, 2)]

ensure_initialized(s, readable, saved) ==
    IF ~s.svc.initialized THEN BanService_initialize(s, readable, saved) ELSE s

\* the ids the files may hold, and the ids of the calls
BanIds == BanTargets

BanCall(op, user_id, ret, before, prev) ==
    [op |-> op, user |-> user_id, ret |-> ret,
     before |-> before,        \* _banned_users when the call's own body began
     first |-> ~banSvc.initialized,   \* the call found the service not loaded
     prevOp |-> prev.op, prevUser |-> prev.user]

\* The process starts on some data directory and constructs the service.
BanInit ==
    /\ banned = {}
    /\ \E json \in BOOLEAN, pkl \in BOOLEAN :
       \E ids \in SUBSET BanIds, pklIds \in SUBSET BanIds :
          /\ json \/ ids = {}
          /\ pkl \/ pklIds = {}
          /\ banFile = ids
          /\ banSvc = BanSvcNew(json, pkl, pklIds)
    /\ banLast = [op |-> "new", user |-> 0, ret |-> "none", before |-> {},
                  first |-> FALSE, prevOp |-> "none", prevUser |-> 0]

\* In the other parts the service is loaded, from an existing empty list.
ServicesLoaded ==
    /\ banSvc = [BanSvcNew(TRUE, FALSE, {}) EXCEPT !.initialized = TRUE, !.loads = 1]
    /\ banLast = [op |-> "initialize", user |-> 0, ret |-> "none", before |-> {},
                  first |-> TRUE, prevOp |-> "new", prevUser |-> 0]

\* what the ban service never touches
notBanVars == <<now, tokens, flags, last, hist, req, taskVars, restVars>>

BanStep(s, call) ==
    /\ banned' = s.banned
    /\ banFile' = s.file
    /\ banSvc' = s.svc
    /\ banLast' = call
    /\ UNCHANGED notBanVars

\* initialize_common: ban_service.initialize()
BanInitialize ==
    \E readable \in BOOLEAN, saved \in BOOLEAN :
        LET s == BanService_initialize(BanState(banned, banFile, banSvc),
                                       readable, saved)
        IN  BanStep(s, BanCall("initialize", 0, "none", banned, banLast))

BanIsBanned(user_id) ==
    \E readable \in BOOLEAN, saved \in BOOLEAN :
        LET s == ensure_initialized(BanState(banned, banFile, banSvc),
                                    readable, saved)
            ret == IF is_banned(s.banned, user_id) THEN "true" ELSE "false"
        IN  BanStep(s, BanCall("is_banned", user_id, ret, s.banned, banLast))

BanBan(user_id) ==
    \E readable \in BOOLEAN, saved \in BOOLEAN, written \in BOOLEAN :
        LET s == ensure_initialized(BanState(banned, banFile, banSvc),
                                    readable, saved)
            result == ban(s.banned, s.file, user_id, written)
            changed == result.banned # s.banned
            t == [s EXCEPT !.banned = result.banned, !.file = result.file,
                           !.svc.json = @ \/ (changed /\ written)]
        IN  BanStep(t, BanCall("ban", user_id, result.ret, s.banned, banLast))

BanUnban(user_id) ==
    \E readable \in BOOLEAN, saved \in BOOLEAN, written \in BOOLEAN :
        LET s == ensure_initialized(BanState(banned, banFile, banSvc),
                                    readable, saved)
            result == unban(s.banned, s.file, user_id, written)
            changed == result.banned # s.banned
            t == [s EXCEPT !.banned = result.banned, !.file = result.file,
                           !.svc.json = @ \/ (changed /\ written)]
        IN  BanStep(t, BanCall("unban", user_id, result.ret, s.banned, banLast))

\* The process is restarted on the data directory as it is.
BanRestart ==
    /\ banSvc.initialized
    /\ banned' = {}
    /\ banSvc' = BanSvcNew(banSvc.json, banSvc.pkl, banSvc.pklIds)
    /\ banLast' = BanCall("new", 0, "none", {}, banLast)
    /\ UNCHANGED <<banFile, notBanVars>>

(***************************************************************************)
(* Part 5.  GameServiceBase and the two games                              *)
(*                                                                         *)
(* A game state is an object: handlers keep references to it across an     *)
(* await, so objects are told apart by identity (their index in heap) and  *)
(* stay in heap after the service has dropped them.                        *)
(***************************************************************************)
MaxObjects == 2
MaxCount == 1

GameKinds == {"math_soup", "highnoon"}
Groups == {1, 2}
\* the concepts of the repository, and the chambers of the revolver
Concepts == {"fermat", "euler"}
BulletPositions == 1 .. 6

\* GameState and its two subclasses; a field of the other game keeps its
\* default.
GameState(kind, group_id) ==
    [kind |-> kind, group_id |-> group_id, is_active |-> TRUE,
     concept |-> "", question_count |-> 0, guess_count |-> 0, history |-> << >>,
     bullet_pos |-> 0, shot_count |-> 0, players |-> {}]

\* the outcome of create_game: concept is "" when the repository is empty
\* (RuntimeError), bullet is random.randint(1, 6)
Creation(concept, bullet) == [concept |-> concept, bullet |-> bullet]
Creations(kind) ==
    IF kind = "math_soup"
    THEN {Creation(c, 0) : c \in Concepts \cup {""}}
    ELSE {Creation("", b) : b \in BulletPositions}

create_game_raises(kind, creation) == kind = "math_soup" /\ creation.concept = ""

create_game(kind, group_id, creation) ==
    IF kind = "math_soup"
    THEN [GameState(kind, group_id) EXCEPT !.concept = creation.concept]
    ELSE [GameState(kind, group_id) EXCEPT !.bullet_pos = creation.bullet]

\* self._games.get(group_id); 0 is None
get_game(gm, group_id) == IF group_id \in DOMAIN gm THEN gm[group_id] ELSE 0

has_active_game(gm, hp, group_id) ==
    LET game == get_game(gm, group_id) IN game # 0 /\ hp[game].is_active

\* sum(1 for game in self._games.values() if game.is_active)
get_active_games_count(gm, hp) ==
    Cardinality({g \in DOMAIN gm : hp[gm[g]].is_active})

GameResult(ret, value, gm, hp) ==
    [ret |-> ret, value |-> value, games |-> gm, heap |-> hp]

\* An end_game that removes the entry and leaves the object's flag set.
end_game_flag_kept(gm, hp, group_id) ==
    LET game == get_game(gm, group_id) IN
    IF game = 0 THEN GameResult("false", 0, gm, hp)
    ELSE GameResult("true", game, DictDel(gm, group_id), hp)

\* An end_game that clears the flag and leaves the entry in the map.
end_game_entry_kept(gm, hp, group_id) ==
    LET game == get_game(gm, group_id) IN
    IF game = 0 THEN GameResult("false", 0, gm, hp)
    ELSE GameResult("true", game, gm, [hp EXCEPT ![game].is_active = FALSE])

end_game(gm, hp, group_id) ==
    LET game == get_game(gm, group_id) IN
    IF game = 0 THEN GameResult("false", 0, gm, hp)
    ELSE GameResult("true", game, DictDel(gm, group_id),
                    [hp EXCEPT ![game].is_active = FALSE])

\* A start_game that keeps the state it finds.
start_game_keeps_old(gm, hp, kind, group_id, creation) ==
    IF group_id \in DOMAIN gm THEN GameResult("success", gm[group_id], gm, hp)
    ELSE IF create_game_raises(kind, creation) THEN GameResult("fail", 0, gm, hp)
    ELSE LET game == Len(hp) + 1 IN
         GameResult("success", game, DictPut(gm, group_id, game),
                    Append(hp, create_game(kind, group_id, creation)))

\* A start_game that creates the new state before it ends the old one.
start_game_create_first(gm, hp, kind, group_id, creation) ==
    IF create_game_raises(kind, creation) THEN GameResult("fail", 0, gm, hp)
    ELSE LET ended == IF group_id \in DOMAIN gm THEN end_game(gm, hp, group_id)
                      ELSE GameResult("false", 0, gm, hp)
             game == Len(ended.heap) + 1
         IN  GameResult("success", game, DictPut(ended.games, group_id, game),
                        Append(ended.heap, create_game(kind, group_id, creation)))

start_game(gm, hp, kind, group_id, creation) ==
    LET ended == IF group_id \in DOMAIN gm THEN end_game(gm, hp, group_id)
                 ELSE GameResult("false", 0, gm, hp)
    IN  IF create_game_raises(kind, creation)
        THEN GameResult("fail", 0, ended.games, ended.heap)
        ELSE LET game == Len(ended.heap) + 1 IN
             GameResult("success", game, DictPut(ended.games, group_id, game),
                        Append(ended.heap, create_game(kind, group_id, creation)))

GameCall(op, kind, group_id, ret, value) ==
    [op |-> op, kind |-> kind, group |-> group_id, ret |-> ret,
     value |-> value,                    \* the state object returned or ended
     old |-> IF group_id = 0 THEN 0      \* the object stored before the call
             ELSE get_game(games[kind], group_id)]

\* The two services share nothing, so a behaviour follows one of them:
\* gameLast.kind is that service from the start.
GameInit ==
    /\ games = [k \in GameKinds |-> << >>]
    /\ heap = << >>
    /\ asking = {}
    /\ \E k \in GameKinds : gameLast = GameCall("new", k, 0, "none", 0)


\* what the game services never touch
notGameVars == <<now, tokens, banned, banFile, flags, last, hist, req, taskVars,
                 banSvc, banLast, instVars, regVars, chatVars, cdVars>>

\* A state object that neither a service nor a waiting ask_question refers
\* to is garbage: nothing can read its fields again.  Its identity and its
\* cleared flag are kept.
Collect(hp, gms, waiting) ==
    [i \in DOMAIN hp |->
        IF i \in waiting \/ \E k \in GameKinds : \E g \in DOMAIN gms[k] : gms[k][g] = i
        THEN hp[i]
        ELSE [GameState(hp[i].kind, hp[i].group_id) EXCEPT !.is_active = hp[i].is_active]]

GameStep(kind, result, call) ==
    /\ kind = gameLast.kind
    /\ games' = [games EXCEPT ![kind] = result.games]
    /\ heap' = Collect(result.heap, games', asking)
    /\ gameLast' = call
    /\ UNCHANGED <<asking, notGameVars>>

StartGame(kind, group_id) ==
    \E creation \in Creations(kind) :
        LET result == start_game(games[kind], heap, kind, group_id, creation) IN
        /\ Len(heap) < MaxObjects
        /\ GameStep(kind, result,
                    GameCall("start_game", kind, group_id, result.ret, result.value))

EndGame(kind, group_id) ==
    LET result == end_game(games[kind], heap, group_id) IN
    GameStep(kind, result, GameCall("end_game", kind, group_id, result.ret, result.value))

\* MathPuzzleService.make_guess, called once the plugin has seen an active
\* game; correct: the guess equals the answer or one of its aliases.
make_guess(gm, hp, group_id, correct) ==
    LET game == get_game(gm, group_id) IN
    IF game = 0 \/ ~hp[game].is_active THEN GameResult("fail", 0, gm, hp)
    ELSE LET counted == [hp EXCEPT ![game].guess_count = @ + 1] IN
         IF correct
         THEN LET ended == end_game(gm, counted, group_id) IN
              GameResult("correct", game, ended.games, ended.heap)
         ELSE GameResult("wrong", game, gm, counted)

\* A fire that compares the count with the bullet before it counts the shot.
fire_compares_first(gm, hp, group_id, user_id) ==
    LET game == get_game(gm, group_id) IN
    IF game = 0 \/ ~hp[game].is_active THEN GameResult("none", 0, gm, hp)
    ELSE LET shot == [hp EXCEPT ![game].players = @ \cup {user_id},
                                ![game].shot_count = @ + 1]
         IN  IF hp[game].shot_count = hp[game].bullet_pos
             THEN LET ended == end_game(gm, shot, group_id) IN
                  GameResult("hit", game, ended.games, ended.heap)
             ELSE GameResult("safe", game, gm, shot)

\* len(STATEMENTS)
NumStatements == 5
\* the index of the message of a safe shot: STATEMENTS[game.shot_count - 1]
SafeStatementIndex(shot_count) == shot_count - 1

\* HighNoonService.fire
fire(gm, hp, group_id, user_id) ==
    LET game == get_game(gm, group_id) IN
    IF game = 0 \/ ~hp[game].is_active THEN GameResult("none", 0, gm, hp)
    ELSE LET shot == [hp EXCEPT ![game].players = @ \cup {user_id},
                                ![game].shot_count = @ + 1]
         IN  IF shot[game].shot_count = shot[game].bullet_pos
             THEN LET ended == end_game(gm, shot, group_id) IN
                  GameResult("hit", game, ended.games, ended.heap)
             ELSE GameResult("safe", game, gm, shot)

\* the judge's text, standardised: "是", "否" or "不确定"
JudgeAnswers == {"yes", "no", "unsure"}

\* ask_question after the AI call: the state object read before the call is
\* updated; answer "fail" is a failed AI call.
ask_question_end(hp, game, answer) ==
    IF answer = "fail" THEN hp
    ELSE [hp EXCEPT ![game].question_count = @ + 1,
                    ![game].history = Append(@, answer)]

\* /数学谜: refused while a puzzle is active
MathPuzzleStart_handle(gm, hp, group_id, creation) ==
    IF has_active_game(gm, hp, group_id)
    THEN GameResult("refused", 0, gm, hp)
    ELSE start_game(gm, hp, "math_soup", group_id, creation)

\* A roulette start that refuses while a game is active.
HighNoonStart_handle_refusing(gm, hp, group_id, creation) ==
    IF has_active_game(gm, hp, group_id)
    THEN GameResult("refused", 0, gm, hp)
    ELSE start_game(gm, hp, "highnoon", group_id, creation)

\* /午时已到
HighNoonStart_handle(gm, hp, group_id, creation) ==
    start_game(gm, hp, "highnoon", group_id, creation)

MathPuzzleStart(group_id) ==
    \E creation \in Creations("math_soup") :
        LET result == MathPuzzleStart_handle(games["math_soup"], heap, group_id, creation) IN
        /\ Len(heap) < MaxObjects
        /\ GameStep("math_soup", result,
                    GameCall("math_start", "math_soup", group_id, result.ret, result.value))

HighNoonStart(group_id) ==
    \E creation \in Creations("highnoon") :
        LET result == HighNoonStart_handle(games["highnoon"], heap, group_id, creation) IN
        /\ Len(heap) < MaxObjects
        /\ GameStep("highnoon", result,
                    GameCall("highnoon_start", "highnoon", group_id, result.ret, result.value))

MathPuzzleGuess(group_id) ==
    \E correct \in BOOLEAN :
        LET gm == games["math_soup"]
            result == make_guess(gm, heap, group_id, correct)
        IN  /\ has_active_game(gm, heap, group_id)
            /\ heap[get_game(gm, group_id)].guess_count
              + heap[get_game(gm, group_id)].question_count < MaxCount
            /\ GameStep("math_soup", result,
                        GameCall("make_guess", "math_soup", group_id, result.ret, result.value))

\* shots fired at one game in a behaviour of SpecRoulette
MaxShots == 6

\* /开枪; cap only bounds the model
FireUpTo(group_id, user_id, cap) ==
    LET gm == games["highnoon"]
        result == fire(gm, heap, group_id, user_id)
    IN  /\ has_active_game(gm, heap, group_id)
        /\ heap[get_game(gm, group_id)].shot_count < cap
        /\ GameStep("highnoon", result,
                    GameCall("fire", "highnoon", group_id, result.ret, result.value))

Fire(group_id, user_id) == FireUpTo(group_id, user_id, MaxCount)

\* /问: ask_question reads the group's state object and awaits the AI.
\* Nothing in it looks at question_count; cap only bounds the model.
AskBeginUpTo(group_id, cap) ==
    LET gm == games["math_soup"]
        game == get_game(gm, group_id)
    IN  /\ gameLast.kind = "math_soup"
        /\ has_active_game(gm, heap, group_id)
        /\ heap[game].guess_count + heap[game].question_count < cap
        /\ asking = {}
        /\ asking' = {game}
        /\ gameLast' = GameCall("ask_question", "math_soup", group_id, "waiting", game)
        /\ UNCHANGED <<games, heap, notGameVars>>

AskBegin(group_id) == AskBeginUpTo(group_id, MaxCount)

\* The AI call returns.
AskEndWith(game, answers) ==
    \E answer \in answers :
        /\ game \in asking
        /\ asking' = asking \ {game}
        /\ heap' = Collect(ask_question_end(heap, game, answer), games, asking')
        /\ gameLast' = GameCall("ask_question", "math_soup", heap[game].group_id,
                                answer, game)
        /\ UNCHANGED <<games, notGameVars>>

AskEnd(game) == AskEndWith(game, JudgeAnswers \cup {"fail"})

\* The module docstring of math_soup: at most 20 yes/no questions.
QUESTION_LIMIT == 20
\* questions asked in one game of a behaviour of SpecQuestions
MaxQuestions == 21

(***************************************************************************)
(* Part 6.  Service singletons                                             *)
(*                                                                         *)
(* ServiceBase keeps one class-level map of instances and GameServiceBase  *)
(* another; an instance is known by the number it got when it was made.    *)
(***************************************************************************)
ServiceTypes == {"BanService", "TokenService"}
GameServiceTypes == {"MathPuzzleService", "HighNoonService"}
GameKindOf(cls) == IF cls = "MathPuzzleService" THEN "math_soup" ELSE "highnoon"

\* ConceptRepository(): nothing loaded
NewRepository == [initialized |-> FALSE, concepts |-> {}]

\* ConceptRepository.initialize, as get_random_concept calls it; found: the
\* concepts the data file (or the built-in list) gives
Repository_initialize(r, found) ==
    IF r.initialized THEN r ELSE [initialized |-> TRUE, concepts |-> found]

Instance(ret, fresh, insts) == [ret |-> ret, fresh |-> fresh, instances |-> insts]

\* A get_instance that constructs on every call.
ServiceBase_get_instance_always_new(insts, cls) ==
    LET made == insts.made + 1 IN
    Instance(made, TRUE,
             [insts EXCEPT !.service = DictPut(@, cls, made), !.made = made])

\* ServiceBase.get_instance
ServiceBase_get_instance(insts, cls) ==
    IF cls \notin DOMAIN insts.service
    THEN LET made == insts.made + 1 IN
         Instance(made, TRUE,
                  [insts EXCEPT !.service = DictPut(@, cls, made), !.made = made])
    ELSE Instance(insts.service[cls], FALSE, insts)

\* GameServiceBase.get_instance: cls(), that is __new__ and then __init__
GameServiceBase_new(insts, cls) ==
    IF cls \notin DOMAIN insts.game
    THEN LET made == insts.made + 1 IN
         Instance(made, TRUE,
                  [insts EXCEPT !.game = DictPut(@, cls, made), !.made = made])
    ELSE Instance(insts.game[cls], FALSE, insts)

\* GameServiceBase.__init__ returns at once on an instance that has been
\* initialized; on a new one it sets _games = {}.
GameServiceBase_init(gms, cls, fresh) ==
    IF fresh THEN [gms EXCEPT ![GameKindOf(cls)] = << >>] ELSE gms

\* MathPuzzleService.__init__ goes on after super().__init__() on every call.
MathPuzzleService_init(r, cls) ==
    IF cls = "MathPuzzleService" THEN NewRepository ELSE r

InstInit ==
    /\ instances = [service |-> << >>, game |-> << >>, made |-> 0]
    /\ repo = NewRepository
    /\ instLast = [op |-> "none", cls |-> "", ret |-> 0, fresh |-> FALSE]

\* what get_instance of a plain service never touches
notInstVars == <<now, tokens, banned, banFile, flags, last, hist, req, taskVars,
                 banSvc, banLast, heap, asking, gameLast, regVars, chatVars,
                 cdVars>>

GetInstance(cls) ==
    LET got == ServiceBase_get_instance(instances, cls) IN
    /\ instances' = got.instances
    /\ instLast' = [op |-> "get_instance", cls |-> cls, ret |-> got.ret,
                    fresh |-> got.fresh]
    /\ UNCHANGED <<games, repo, notInstVars>>

GetGameInstance(cls) ==
    LET got == GameServiceBase_new(instances, cls) IN
    /\ instances' = got.instances
    /\ games' = GameServiceBase_init(games, cls, got.fresh)
    /\ repo' = MathPuzzleService_init(repo, cls)
    /\ instLast' = [op |-> "get_instance", cls |-> cls, ret |-> got.ret,
                    fresh |-> got.fresh]
    /\ UNCHANGED notInstVars

\* the outcomes of create_game on a repository that holds concepts
CreationsFrom(kind, concepts) ==
    IF kind = "highnoon" THEN Creations(kind)
    ELSE IF concepts = {} THEN {Creation("", 0)}
    ELSE {Creation(c, 0) : c \in concepts}

\* A handler uses the game service it has got: start_game, and for the math
\* puzzle create_game's get_random_concept, which loads the repository from
\* the data file if it is not loaded.
InstanceStartGame(cls, group_id) ==
    \E found \in {Concepts, {}} :
        LET kind == GameKindOf(cls)
            loaded == IF kind = "math_soup" THEN Repository_initialize(repo, found)
                      ELSE repo
        IN  \E creation \in CreationsFrom(kind, loaded.concepts) :
                LET result == start_game(games[kind], heap, kind, group_id, creation) IN
                /\ cls \in DOMAIN instances.game
                /\ kind = gameLast.kind
                /\ Len(heap) < MaxObjects
                /\ games' = [games EXCEPT ![kind] = result.games]
                /\ heap' = Collect(result.heap, games', asking)
                /\ gameLast' = GameCall("start_game", kind, group_id,
                                        result.ret, result.value)
                /\ repo' = loaded
                /\ instLast' = [instLast EXCEPT !.op = "start_game"]
                /\ UNCHANGED <<instances, now, tokens, banned, banFile, flags, last,
                               hist, req, taskVars, banSvc, banLast, asking,
                               regVars, chatVars, cdVars>>

(***************************************************************************)
(* Part 7.  PluginRegistry                                                 *)
(*                                                                         *)
(* Every plugin object registers its PluginInfo when it is constructed.    *)
(* Several plugins may declare the same feature name (the four commands of *)
(* math_soup do), and a plugin without a feature name is known by its      *)
(* display name.                                                           *)
(***************************************************************************)
PluginNames == {"help", "math"}
\* command = None (feature_name = None is NoFeature)
NoCommand == ""
RegFeatureNames == {NoFeature, "math"}
RegCommands == {"c1", "c2"}

PluginInfo(name, feature_name, command, aliases) ==
    [name |-> name, feature_name |-> feature_name, command |-> command,
     aliases |-> aliases]

PluginInfos ==
    {PluginInfo(n, f, c, a) : n \in PluginNames, f \in RegFeatureNames,
                              c \in {NoCommand} \cup RegCommands,
                              a \in {{}, {"c2"}}}

\* what dict.get returns for a key that is not there
NoPlugin == PluginInfo("", NoFeature, NoCommand, {})

\* key = info.feature_name or info.name
RegistryKey(info) ==
    IF info.feature_name # NoFeature THEN info.feature_name ELSE info.name

\* the command map after the command and the aliases of info are recorded
RecordCommands(commands, info, key) ==
    IF info.command = NoCommand THEN commands
    ELSE LET mine == {info.command} \cup info.aliases IN
         [c \in (DOMAIN commands) \cup mine |->
             IF c \in mine THEN key ELSE commands[c]]

\* register without the check for a key that is present
register_overwriting(reg, info) ==
    LET key == RegistryKey(info) IN
    [plugins |-> DictPut(reg.plugins, key, info),
     commands |-> RecordCommands(reg.commands, info, key)]

register(reg, info) ==
    LET key == RegistryKey(info) IN
    IF key \in DOMAIN reg.plugins THEN reg
    ELSE [plugins |-> DictPut(reg.plugins, key, info),
          commands |-> RecordCommands(reg.commands, info, key)]

get_plugin(reg, key) ==
    IF key \in DOMAIN reg.plugins THEN reg.plugins[key] ELSE NoPlugin

get_plugin_by_command(reg, command) ==
    IF command \in DOMAIN reg.commands
    THEN get_plugin(reg, reg.commands[command])
    ELSE NoPlugin

get_plugin_count(reg) == Cardinality(DOMAIN reg.plugins)

clear(reg) == [plugins |-> << >>, commands |-> << >>]

\* The record of a registry call: the argument, what was returned, the
\* registry as it was before the call, and for each key the info that was
\* registered first under it since the registry was last empty.
RegCall(op, key, info, ret, before, first) ==
    [op |-> op, key |-> key, info |-> info, ret |-> ret, before |-> before,
     first |-> first]

RegInit ==
    /\ registry = [plugins |-> << >>, commands |-> << >>]
    /\ regLast = RegCall("new", "", NoPlugin, NoPlugin, registry, << >>)

\* what the plugin registry never touches
notRegVars == <<now, tokens, banned, banFile, flags, last, hist, req, taskVars,
                banSvc, banLast, gameVars, instVars, chatVars, cdVars>>

Register(info) ==
    LET key == RegistryKey(info) IN
    /\ registry' = register(registry, info)
    /\ regLast' = RegCall("register", key, info, NoPlugin, registry,
                          IF key \in DOMAIN regLast.first THEN regLast.first
                          ELSE DictPut(regLast.first, key, info))
    /\ UNCHANGED notRegVars

GetPlugin(key) ==
    /\ regLast' = RegCall("get_plugin", key, NoPlugin, get_plugin(registry, key),
                          registry, regLast.first)
    /\ UNCHANGED <<registry, notRegVars>>

GetPluginByCommand(command) ==
    /\ regLast' = RegCall("get_plugin_by_command", command, NoPlugin,
                          get_plugin_by_command(registry, command),
                          registry, regLast.first)
    /\ UNCHANGED <<registry, notRegVars>>

Clear ==
    /\ registry' = clear(registry)
    /\ regLast' = RegCall("clear", "", NoPlugin, NoPlugin, registry, << >>)
    /\ UNCHANGED notRegVars

(***************************************************************************)
(* Part 8.  ChatService: the chat history                                  *)
(*                                                                         *)
(* _history maps a group to a deque made with maxlen =                     *)
(* config.max_history_per_group.  A ChatMessage is known by its arrival    *)
(* number: the n-th record_message call of the process makes entry n.      *)
(***************************************************************************)
\* config.max_history_per_group (validated gt=0; 50 by default)
max_history_per_group == 2
\* record_message calls in one behaviour
MaxMessages == 3

ChatMessage(n, is_bot) == [n |-> n, is_bot |-> is_bot]

\* deque.append on a deque made with that maxlen (> 0): when the deque is
\* full the item at the left end is discarded
\* a deque that never discards
deque_append_unbounded(d, x, maxlen) == Append(d, x)

deque_append(d, x, maxlen) ==
    IF Len(d) >= maxlen THEN Append(Tail(d), x) ELSE Append(d, x)

_get_or_create_history(h, group_id) ==
    IF group_id \in DOMAIN h THEN h ELSE DictPut(h, group_id, << >>)

record_message(h, group_id, entry) ==
    LET made == _get_or_create_history(h, group_id) IN
    [made EXCEPT ![group_id] = deque_append(made[group_id], entry,
                                             max_history_per_group)]

\* [m for m in messages if not m.is_bot], unless include_bot
Eligible(messages, include_bot) ==
    IF include_bot THEN messages
    ELSE SelectSeq(messages, LAMBDA m : ~m.is_bot)

\* Python's messages[start:] for any integer start
SliceFrom(messages, start) ==
    LET len == Len(messages)
        from == IF start < 0 THEN (IF len + start < 0 THEN 0 ELSE len + start)
                ELSE Min(start, len)
    IN  SubSeq(messages, from + 1, len)

get_messages(h, group_id, limit, include_bot) ==
    IF group_id \notin DOMAIN h THEN << >>
    ELSE LET messages == Eligible(h[group_id], include_bot) IN
         IF Len(messages) > limit THEN SliceFrom(messages, 0 - limit)
         ELSE messages

\* The record of a chat service call: its arguments, what it returned, the
\* history map as it was before the call, and how many messages have been
\* recorded so far.
ChatCall(op, group_id, limit, include_bot, ret, before, arrived) ==
    [op |-> op, group_id |-> group_id, limit |-> limit,
     include_bot |-> include_bot, ret |-> ret, before |-> before,
     arrived |-> arrived]

ChatInit ==
    /\ history = << >>
    /\ chatLast = ChatCall("new", 0, 0, FALSE, << >>, << >>, 0)

\* what the chat history never touches
notChatVars == <<now, tokens, banned, banFile, flags, last, hist, req, taskVars,
                 banSvc, banLast, gameVars, instVars, regVars, cdVars>>

Limits == 0 .. max_history_per_group + 1

RecordMessage(group_id, is_bot) ==
    LET entry == ChatMessage(chatLast.arrived + 1, is_bot) IN
    /\ chatLast.arrived < MaxMessages
    /\ history' = record_message(history, group_id, entry)
    /\ chatLast' = ChatCall("record_message", group_id, 0, is_bot, <<entry>>,
                            history, chatLast.arrived + 1)
    /\ UNCHANGED notChatVars

GetMessages(group_id, limit, include_bot) ==
    /\ chatLast' = ChatCall("get_messages", group_id, limit, include_bot,
                            get_messages(history, group_id, limit, include_bot),
                            history, chatLast.arrived)
    /\ UNCHANGED <<history, notChatVars>>

(***************************************************************************)
(* Part 9.  ChatService: the cooldown, and the random reply                *)
(*                                                                         *)
(* time.time() is read as the integer now; it never goes back.             *)
(***************************************************************************)
\* config.random_reply_cooldown (validated gt=0; 30 by default)
random_reply_cooldown == 2
\* the last reading of the clock
MaxClock == 3

check_cooldown_strict(cd, group_id, ct) ==
    IF group_id \notin DOMAIN cd THEN TRUE
    ELSE ct - cd[group_id] > random_reply_cooldown

check_cooldown(cd, group_id, ct) ==
    IF group_id \notin DOMAIN cd THEN TRUE
    ELSE ct - cd[group_id] >= random_reply_cooldown

set_cooldown(cd, group_id, ct) == DictPut(cd, group_id, ct)

\* The record of a random-reply step: the task, what the handler did
\* ("triggered", "cooldown": refused by check_cooldown, "skipped": refused
\* by another condition, "replied"), the clock reading, and for each group
\* when the reply was last triggered, after the step and before it.
ReplyStep(task, op, group_id, ret, at, before, trig, prevTrig) ==
    [op |-> op, group_id |-> group_id, ret |-> ret, at |-> at,
     before |-> before, setAt |-> << >>, task |-> task, trig |-> trig,
     prevTrig |-> prevTrig]

\* The record of a cooldown call: what it returned, the clock reading, the
\* cooldown map before the call, and for each group when set_cooldown was
\* last called for it.
CooldownCall(op, group_id, ret, at, before, setAt) ==
    [ReplyStep(0, op, group_id, ret, at, before, << >>, << >>)
        EXCEPT !.setAt = setAt]

CooldownInit ==
    /\ cooldown = << >>
    /\ replying = {}
    /\ cdLast = CooldownCall("new", 0, FALSE, 0, << >>, << >>)

\* what the cooldown calls never touch
notCooldownVars == <<tokens, banned, banFile, flags, last, hist, req, taskVars,
                     banSvc, banLast, gameVars, instVars, regVars, chatVars>>

CheckCooldown(group_id) ==
    /\ cdLast' = CooldownCall("check_cooldown", group_id,
                              check_cooldown(cooldown, group_id, now), now,
                              cooldown, cdLast.setAt)
    /\ UNCHANGED <<now, cooldown, replying, notCooldownVars>>

SetCooldown(group_id) ==
    /\ cooldown' = set_cooldown(cooldown, group_id, now)
    /\ cdLast' = CooldownCall("set_cooldown", group_id, FALSE, now, cooldown,
                              DictPut(cdLast.setAt, group_id, now))
    /\ UNCHANGED <<now, replying, notCooldownVars>>

ClockTick ==
    /\ now < MaxClock
    /\ now' = now + 1
    /\ UNCHANGED <<cdVars, notCooldownVars>>

\* handle_message up to its first await (ai.chat), with the set_cooldown call
\* left out
handle_message_begin_no_set(cd, group_id, ct, pass) ==
    [cooldown |-> cd,
     ret |-> IF ~pass THEN "skipped"
             ELSE IF check_cooldown(cd, group_id, ct) THEN "triggered"
             ELSE "cooldown"]

\* RandomReplyPlugin.handle_message from _should_reply up to its first await
\* (ai.chat).  pass is what _should_reply's other conditions and its random
\* draw give; check_cooldown is called when the conditions before it hold.
handle_message_begin(cd, group_id, ct, pass) ==
    LET should == pass /\ check_cooldown(cd, group_id, ct) IN
    [cooldown |-> IF should THEN set_cooldown(cd, group_id, ct) ELSE cd,
     ret |-> IF ~pass THEN "skipped"
             ELSE IF should THEN "triggered" ELSE "cooldown"]

\* what the random reply never touches
notReplyVars == <<tokens, banned, banFile, flags, last, hist, req, taskVars,
                  banSvc, banLast, gameVars, instVars, regVars>>

\* A message of a group reaches the handler in task t: it is recorded, and
\* the handler returns or goes on to wait for the AI.  No await lies between
\* record_message, _should_reply and set_cooldown, so this is one step.
RandomReplyBegin(t, group_id, pass) ==
    LET entry == ChatMessage(chatLast.arrived + 1, FALSE)
        did == handle_message_begin(cooldown, group_id, now, pass)
        triggered == did.ret = "triggered"
    IN  /\ \A r \in replying : r.task # t
        /\ chatLast.arrived < MaxMessages
        /\ history' = record_message(history, group_id, entry)
        /\ chatLast' = ChatCall("record_message", group_id, 0, FALSE, <<entry>>,
                                history, chatLast.arrived + 1)
        /\ cooldown' = did.cooldown
        /\ replying' = IF triggered
                       THEN replying \cup {[task |-> t, group_id |-> group_id]}
                       ELSE replying
        /\ cdLast' = ReplyStep(t, "handle_message", group_id, did.ret, now,
                               cooldown,
                               IF triggered THEN DictPut(cdLast.trig, group_id, now)
                               ELSE cdLast.trig,
                               cdLast.trig)
        /\ UNCHANGED <<now, notReplyVars>>

\* ai.chat returns to the handler in task t, with a reply or a failure: the
\* bot's reply is recorded and sent.
RandomReplyEnd(t) ==
    \E r \in replying :
        LET entry == ChatMessage(chatLast.arrived + 1, TRUE) IN
        /\ r.task = t
        /\ chatLast.arrived < MaxMessages
        /\ history' = record_message(history, r.group_id, entry)
        /\ chatLast' = ChatCall("record_message", r.group_id, 0, TRUE, <<entry>>,
                                history, chatLast.arrived + 1)
        /\ replying' = replying \ {r}
        /\ cdLast' = ReplyStep(t, "handle_message", r.group_id, "replied", now,
                               cooldown, cdLast.trig, cdLast.trig)
        /\ UNCHANGED <<now, cooldown, notReplyVars>>

ReplyTick ==
    /\ now < MaxClock
    /\ now' = now + 1
    /\ UNCHANGED <<cdVars, chatVars, notReplyVars>>

RestInit == GameInit /\ InstInit /\ RegInit /\ ChatInit /\ CooldownInit

vars == <<now, tokens, banned, banFile, flags, last, hist, req, pc, ctx, run,
         banSvc, banLast, games, heap, asking, gameLast, instances, repo, instLast,
         registry, regLast, history, chatLast, cooldown, replying, cdLast>>

InitToken ==
    /\ TokenInit
    /\ AdminInit
    /\ TaskInit
    /\ ServicesLoaded
    /\ RestInit
    /\ \E w \in AdminIds : hist = HistInit(w)

NextToken ==
    \/ \E u \in AdminIds : GenerateToken(u)
    \/ \E u \in AdminIds : VerifyToken(u)
    \/ \E u \in AdminIds : HasValidToken(u)
    \/ Tick

SpecToken == InitToken /\ [][NextToken]_vars

NextAdmin ==
    \/ RequestTokenCommand
    \/ StatusControlCommand
    \/ AdminTick

SpecAdmin == InitToken /\ [][NextAdmin]_vars

\* The token history is not used in part 3.
InitDispatch ==
    /\ TokenInit
    /\ AdminInit
    /\ TaskInit
    /\ ServicesLoaded
    /\ RestInit
    /\ hist = HistInit(CHOOSE w \in AdminIds : TRUE)

NextDispatch ==
    \/ \E t \in Tasks, p \in Plugins, u \in Senders : Begin(t, p, u)
    \/ \E t \in Tasks : HandlerReply(t)
    \/ \E t \in Tasks, raised \in {"none", "finished", "error"} : HandlerEnd(t, raised)
    \/ \E t \in Tasks, sent \in BOOLEAN : FinishRaises(t, sent)
    \/ \E t \in Tasks : NextEvent(t)
    \/ \E u \in BanTargets \cap Senders : AdminBans(u)
    \/ \E u \in BanTargets \cap Senders : AdminUnbans(u)
    \/ \E f \in Features : AdminToggles(f)

SpecDispatch == InitDispatch /\ [][NextDispatch]_vars

\* the messages that change nothing but the sender's token
ListingArgs == {a \in StatusArgs : a.action \in {"", "status", "system", "other"}}

\* Two "/状态控制 <token> 拉黑 <id>" messages handled in two tasks, each with
\* a token that verifies.  The handler has no await before _handle_ban and
\* _handle_ban none before its finish(): is_banned, the add to the set and
\* the write of banned.json are one step, and the task then waits for the
\* platform to take the reply.  run[t] records the target, the reply, and
\* the tasks that were waiting when the handler ran.
BanHandlerBegin(t, arg, saved) ==
    LET h == _handle_ban(banned, banFile, arg, saved) IN
    /\ pc[t] = "idle"
    /\ banned' = h.banned
    /\ banFile' = h.file
    /\ pc' = [pc EXCEPT ![t] = "finish"]
    /\ run' = [run EXCEPT ![t] = [target |-> ParseUserId(arg), reply |-> h.reply,
                                  during |-> {o \in Tasks : pc[o] = "finish"}]]
    /\ UNCHANGED <<flags, ctx, notDispatchVars>>

\* The reply has been sent: the handler returns.
BanHandlerEnd(t) ==
    /\ pc[t] = "finish"
    /\ pc' = [pc EXCEPT ![t] = "done"]
    /\ UNCHANGED <<banned, banFile, flags, ctx, run, notDispatchVars>>

\* The task takes the next message.
BanHandlerNext(t) ==
    /\ pc[t] = "done"
    /\ pc' = [pc EXCEPT ![t] = "idle"]
    /\ run' = [run EXCEPT ![t] = RunInit]
    /\ UNCHANGED <<banned, banFile, flags, ctx, notDispatchVars>>

NextConcurrentBan ==
    \/ \E t \in Tasks, arg \in IdTexts, saved \in BOOLEAN : BanHandlerBegin(t, arg, saved)
    \/ \E t \in Tasks : BanHandlerEnd(t)
    \/ \E t \in Tasks : BanHandlerNext(t)

SpecConcurrentBan == InitDispatch /\ [][NextConcurrentBan]_vars

NextStatus ==
    \/ RequestTokenCommand
    \/ \E user_id \in Users, args \in ListingArgs : StatusControlSeen(user_id, args)
    \/ AdminTick

SpecStatus == InitDispatch /\ [][NextStatus]_vars

InitBan ==
    /\ TokenInit
    /\ flags = [f \in Features |-> TRUE]
    /\ req = Request("none", 0, FALSE, 0)
    /\ TaskInit
    /\ hist = HistInit(CHOOSE w \in AdminIds : TRUE)
    /\ BanInit
    /\ RestInit

NextBan ==
    \/ BanInitialize
    \/ \E u \in BanIds : BanIsBanned(u)
    \/ \E u \in BanIds : BanBan(u)
    \/ \E u \in BanIds : BanUnban(u)
    \/ BanRestart

SpecBan == InitBan /\ [][NextBan]_vars

InitGame ==
    /\ TokenInit
    /\ AdminInit
    /\ TaskInit
    /\ hist = HistInit(CHOOSE w \in AdminIds : TRUE)
    /\ ServicesLoaded
    /\ RestInit

NextGame ==
    \/ \E k \in GameKinds, g \in Groups : StartGame(k, g)
    \/ \E k \in GameKinds, g \in Groups : EndGame(k, g)
    \/ \E g \in Groups : MathPuzzleStart(g)
    \/ \E g \in Groups : HighNoonStart(g)
    \/ \E g \in Groups : MathPuzzleGuess(g)
    \/ \E g \in Groups, u \in Senders : Fire(g, u)
    \/ \E g \in Groups : AskBegin(g)
    \/ \E game \in 1 .. MaxObjects : AskEnd(game)

SpecGame == InitGame /\ [][NextGame]_vars

NextSingleton ==
    \/ \E cls \in ServiceTypes : GetInstance(cls)
    \/ \E cls \in GameServiceTypes : GetGameInstance(cls)
    \/ \E cls \in GameServiceTypes, g \in Groups : InstanceStartGame(cls, g)

SpecSingleton == InitGame /\ [][NextSingleton]_vars

\* Long games of the math puzzle: the judge answers "是" or the call fails.
NextQuestions ==
    \/ \E g \in Groups : MathPuzzleStart(g)
    \/ \E g \in Groups : AskBeginUpTo(g, MaxQuestions)
    \/ \E game \in 1 .. MaxObjects : AskEndWith(game, {"yes", "fail"})

SpecQuestions == InitGame /\ [][NextQuestions]_vars

\* Whole roulette games.
NextRoulette ==
    \/ \E g \in Groups : HighNoonStart(g)
    \/ \E g \in Groups, u \in Senders : FireUpTo(g, u, MaxShots)

SpecRoulette == InitGame /\ [][NextRoulette]_vars

NextRegistry ==
    \/ \E info \in PluginInfos : Register(info)
    \/ \E key \in PluginNames : GetPlugin(key)
    \/ \E command \in RegCommands : GetPluginByCommand(command)
    \/ Clear

SpecRegistry == InitGame /\ [][NextRegistry]_vars

NextChat ==
    \/ \E g \in Groups, is_bot \in BOOLEAN : RecordMessage(g, is_bot)
    \/ \E g \in Groups, limit \in Limits, include_bot \in BOOLEAN :
           GetMessages(g, limit, include_bot)

SpecChat == InitGame /\ [][NextChat]_vars

NextCooldown ==
    \/ \E g \in Groups : CheckCooldown(g)
    \/ \E g \in Groups : SetCooldown(g)
    \/ ClockTick

SpecCooldown == InitGame /\ [][NextCooldown]_vars

NextRandomReply ==
    \/ \E t \in Tasks, g \in Groups, pass \in BOOLEAN : RandomReplyBegin(t, g, pass)
    \/ \E t \in Tasks : RandomReplyEnd(t)
    \/ ReplyTick

SpecRandomReply == InitGame /\ [][NextRandomReply]_vars

(***************************************************************************)
(* Claims about TokenService, checked under SpecToken                      *)
(***************************************************************************)
\* the latest step was verify_token(watch, t) with t the value the latest
\* generate_token(watch) returned
VerifiedIssued ==
    /\ last.op = "verify"
    /\ last.user = hist.watch
    /\ hist.tok # 0
    /\ last.token = hist.tok

\* C1: after generate_token(u) returned t, the first verify_token(u, t) made
\* before expiry returns True, every later verify_token(u, t) returns False
\* until generate_token(u) is called again, and no issued token is verified
\* successfully twice.
C1_OneTimeToken ==
    /\ hist.oks <= 1
    /\ (VerifiedIssued /\ hist.tries = 1 /\ now < hist.at + TOKEN_EXPIRE_SECONDS)
          => last.ret
    /\ (VerifiedIssued /\ hist.tries >= 2) => ~last.ret

\* a second verify_token(u, t) of a token that was verified once is refused
C1_Witness ==
    /\ VerifiedIssued
    /\ hist.tries = 2
    /\ hist.oks = 1
    /\ now < hist.at + TOKEN_EXPIRE_SECONDS
    /\ ~last.ret

\* C2: at most one token of a user is live; after generate_token(u) returned
\* t1 and a later generate_token(u) returned t2 # t1, verify_token(u, t1)
\* returns False although t1 was never used and has not expired, and
\* verify_token(u, t2) still succeeds afterwards.
C2_Regeneration ==
    /\ \A u \in Users :
          Cardinality({t \in TokenValues : verify_token(tokens, u, t, now).ret}) <= 1
    /\ (/\ last.op = "verify"
        /\ last.user = hist.watch
        /\ hist.prev # 0
        /\ last.token = hist.prev
        /\ hist.prev # hist.tok) => ~last.ret
    /\ (/\ VerifiedIssued
        /\ hist.prevTried
        /\ hist.tries = 1
        /\ now <= hist.at + TOKEN_EXPIRE_SECONDS) => last.ret

\* t1 was refused before any token of the user could have expired, and t2
\* is accepted after that
C2_Witness ==
    /\ VerifiedIssued
    /\ hist.prevTried
    /\ hist.prev # hist.tok
    /\ now < TOKEN_EXPIRE_SECONDS
    /\ last.ret

\* C3: verify_token(u, t) made more than TOKEN_EXPIRE_SECONDS after
\* generate_token(u) returns False even for the right t, and the record is
\* gone afterwards, so t is not verified at any later time either.
C3_TokenExpiry ==
    /\ (VerifiedIssued /\ now > hist.at + TOKEN_EXPIRE_SECONDS) => ~last.ret
    /\ hist.lateSeen => hist.watch \notin DOMAIN tokens

\* the first verify_token(u, t) with the right value comes after the window
C3_Witness ==
    /\ VerifiedIssued
    /\ hist.tries = 1
    /\ now > hist.at + TOKEN_EXPIRE_SECONDS
    /\ hist.lateSeen
    /\ ~last.ret

(***************************************************************************)
(* Claims about the admin control protocol, checked under SpecAdmin        *)
(***************************************************************************)
\* this step changed a feature flag or the ban list (in memory or on disk)
AdminEffect == flags' # flags \/ banned' # banned \/ banFile' # banFile

\* this step stored a token record for user u that was not there before
TokenStored(u) ==
    /\ u \in DOMAIN tokens'
    /\ (u \in DOMAIN tokens => tokens'[u] # tokens[u])

\* C4: every feature toggle, ban and unban comes from a status-control
\* request whose sender is in the admin whitelist and whose token
\* verify_token accepts for that sender in that request; and the requests a
\* user gets past the token check since the latest token was issued to that
\* user number at most one.
C4_AdminProtocol ==
    /\ [](hist.subs <= 1)
    /\ [][AdminEffect =>
            /\ req'.plugin = "status_control"
            /\ req'.user \in AdminIds
            /\ req'.token # 0
            /\ verify_token(tokens, req'.user, req'.token, now).ret]_vars

\* a ban was carried out by the watched admin's request, which consumed the
\* token issued to that admin
C4_Witness ==
    /\ req.plugin = "status_control"
    /\ req.user = hist.watch
    /\ req.token = hist.tok
    /\ hist.subs = 1
    /\ banned # {}
    /\ hist.watch \notin DOMAIN tokens

\* C5: a token record is created or replaced only by a request-token message
\* that is private and whose sender is in the admin whitelist (the record is
\* the sender's); a request-token message from a group or from a non-admin
\* leaves the token store as it was.
C5_TokenIssuance ==
    [][/\ \A u \in Users : TokenStored(u) =>
              /\ req'.plugin = "request_token"
              /\ req'.user = u
              /\ req'.private
              /\ u \in AdminIds
       /\ (req'.plugin = "request_token" /\ tokens' # tokens) =>
              /\ req'.private
              /\ req'.user \in AdminIds
              /\ tokens' = generate_token(tokens, req'.user, req'.token, now)]_vars

\* a private request of an admin has put a token into the store
C5_Witness ==
    /\ req.plugin = "request_token"
    /\ req.private
    /\ req.user \in AdminIds
    /\ req.user \in DOMAIN tokens
    /\ tokens[req.user].token = req.token

(***************************************************************************)
(* The dispatch wrappers                                                   *)
(***************************************************************************)
IsCommand(t) == run[t].plugin # "none" /\ PluginKind(run[t].plugin) = "command"
IsMessage(t) == run[t].plugin # "none" /\ PluginKind(run[t].plugin) = "message"

\* C6: in a command plugin's wrapper, when the sender is banned the ban check
\* is the only check that runs, the banned rejection is the only reply, and
\* the handler is not called -- also when the plugin's feature flag is off.
C6_DispatchOrder ==
    \A t \in Tasks :
        IsCommand(t) /\ run[t].wasBanned =>
            /\ run[t].checks = <<"permission">>
            /\ run[t].replies = <<"banned">>
            /\ ~run[t].invoked

\* a banned sender's command for a plugin whose feature is off has ended
C6_Witness ==
    \E t \in Tasks :
        /\ pc[t] = "done"
        /\ IsCommand(t)
        /\ run[t].wasBanned
        /\ ~run[t].wasEnabled
        /\ run[t].replies = <<"banned">>
        /\ run[t].exit = "finished"

\* C7: in both wrappers the handler is called for an event only if the sender
\* was not banned and the plugin's feature flag, when it declares one, was
\* enabled when the wrapper checked.
C7_GatedDispatch ==
    \A t \in Tasks :
        run[t].invoked => ~run[t].wasBanned /\ run[t].wasEnabled

\* a message plugin's handler and a command plugin's handler are running, and
\* the message plugin's flag has been switched off since its check
C7_Witness ==
    \E t \in Tasks, o \in Tasks :
        /\ IsMessage(t) /\ run[t].invoked /\ pc[t] = "handling"
        /\ ~flags[PluginFeature(run[t].plugin)]
        /\ IsCommand(o) /\ run[o].invoked
        /\ PluginFeature(run[o].plugin) # NoFeature

\* C8: every wrapper that has a step to take can take it, and a wrapper that
\* has ended did not end with the handler's error.  A command handler's error
\* other than FinishedException gives exactly one reply, the error reply; a
\* message handler's exception gives no reply and the wrapper returns.
C8_ErrorContainment ==
    \A t \in Tasks :
        /\ pc[t] \in {"handling", "finishing"} => ENABLED TaskStep(t)
        /\ pc[t] = "done" => run[t].exit \in {"return", "finished", "send_failed"}
        /\ run[t].exit # "error"
        /\ IsCommand(t) /\ run[t].raised = "error" =>
              /\ run[t].replies = <<"error">>
              /\ pc[t] = "done" => run[t].exit \in {"finished", "send_failed"}
        /\ IsCommand(t) /\ run[t].invoked /\ run[t].raised # "error" =>
              run[t].replies = << >>
        /\ IsMessage(t) =>
              /\ run[t].replies = << >>
              /\ pc[t] = "done" => run[t].exit = "return"

\* a command handler's error has been reported and its wrapper has ended, and
\* a message handler's error has been swallowed
C8_Witness ==
    \E t \in Tasks, o \in Tasks :
        /\ IsCommand(t) /\ run[t].raised = "error" /\ pc[t] = "done"
        /\ run[t].exit = "finished"
        /\ IsMessage(o) /\ run[o].raised = "error" /\ pc[o] = "done"

\* C9: when a wrapper has ended, by whichever path, the current-event
\* variable of its task has the value it had before the wrapper started.
C9_ContextCleanup ==
    \A t \in Tasks :
        /\ pc[t] = "done" => ctx[t] = run[t].before
        /\ pc[t] \in {"handling", "finishing"} => ctx[t] = run[t].event

\* one wrapper ended on the handler's error, the other on a banned rejection
C9_Witness ==
    \E t \in Tasks, o \in Tasks :
        /\ pc[t] = "done" /\ run[t].raised = "error" /\ IsCommand(t)
        /\ pc[o] = "done" /\ run[o].replies = <<"banned">>
        /\ ctx[t] = run[t].before /\ ctx[o] = run[o].before

\* C10: a handler that reads the current event sees the event its wrapper was
\* started with, whatever the other task has done in the meantime.
C10_OwnEvent ==
    \A t \in Tasks :
        run[t].read => run[t].seen = run[t].event

\* a handler has read its event after the other task's wrapper, started on
\* another sender's event, had ended and reset its variable
C10_Witness ==
    \E t \in Tasks, o \in Tasks :
        /\ t # o
        /\ pc[t] = "handling" /\ run[t].read /\ run[t].peerDone
        /\ pc[o] = "done" /\ run[o].invoked
        /\ run[o].event.user_id # run[t].event.user_id
        /\ ctx[o] = NoEvent

(***************************************************************************)
(* Claims about BanService, checked under SpecBan                          *)
(***************************************************************************)
\* C11: right after ban(x), is_banned(x) is true, and right after unban(x)
\* it is false; a ban(x) that follows a ban(x) returns success(False) and
\* leaves the set as it was, and so does unban(x) of a user who is not banned.
C11_BanSemantics ==
    /\ banLast.op = "ban" => is_banned(banned, banLast.user)
    /\ banLast.op = "unban" => ~is_banned(banned, banLast.user)
    /\ banLast.op = "is_banned" /\ banLast.prevUser = banLast.user =>
          /\ banLast.prevOp = "ban" => banLast.ret = "true"
          /\ banLast.prevOp = "unban" => banLast.ret = "false"
    /\ banLast.op = "ban" /\ banLast.prevOp = "ban"
       /\ banLast.prevUser = banLast.user =>
          banLast.ret = "success_false" /\ banned = banLast.before
    /\ banLast.op = "unban" /\ banLast.user \notin banLast.before =>
          banLast.ret = "success_false" /\ banned = banLast.before

\* ban(x) has been called a second time in a row, with another user banned
C11_Witness ==
    /\ banLast.op = "ban" /\ banLast.prevOp = "ban"
    /\ banLast.prevUser = banLast.user
    /\ banLast.ret = "success_false"
    /\ banned = BanIds

\* what a fresh process would load from the data directory as it is now
FreshLoad ==
    _load_banned_list(
        BanState({}, banFile, BanSvcNew(banSvc.json, banSvc.pkl, banSvc.pklIds)),
        TRUE, TRUE).ret

\* C12: after a ban or unban call that changed the in-memory set,
\* banned.json exists and holds exactly the ids of the in-memory set, so a
\* fresh load from the data directory gives the same set.
C12_BanPersistence ==
    banLast.op \in {"ban", "unban"} /\ banned # banLast.before =>
        /\ banSvc.json
        /\ banFile = banned
        /\ FreshLoad = banned

\* the ids the two files of the data directory hold now
HeldByFiles ==
    (IF banSvc.json THEN banFile ELSE {}) \cup (IF banSvc.pkl THEN banSvc.pklIds ELSE {})

\* C13: when the first load found only the legacy file, then whatever the
\* outcome of initialize the ids the legacy file held are still held by one
\* of the two files (the legacy file goes only once banned.json holds them),
\* and after a successful migration the in-memory set, banned.json and the
\* legacy contents agree.
C13_LegacyMigration ==
    /\ banLast.first /\ banLast.op \in {"initialize", "is_banned"}
    /\ banSvc.migration # "none"
    =>  /\ banSvc.legacy \subseteq HeldByFiles
        /\ banSvc.migration = "done" =>
              /\ banned = banSvc.legacy
              /\ banSvc.json /\ banFile = banSvc.legacy
              /\ ~banSvc.pkl

(***************************************************************************)
(* Claims about the game services, checked under SpecGame                  *)
(***************************************************************************)
\* the map of the service the behaviour follows
TheGames == games[gameLast.kind]

\* a state object that has been ended is not stored again, is not made
\* active again, and every stored object is active
NeverTheOldObject ==
    /\ [](\A g \in DOMAIN TheGames : heap[TheGames[g]].is_active)
    /\ [][\A i \in DOMAIN heap : ~heap[i].is_active =>
              /\ ~heap'[i].is_active
              /\ \A g \in DOMAIN TheGames' : TheGames'[g] # i]_vars

EndGameAsClaimed ==
    gameLast.op = "end_game" =>
        /\ (gameLast.ret = "true") = (gameLast.old # 0)
        /\ gameLast.ret \in {"true", "false"}
        /\ ~has_active_game(TheGames, heap, gameLast.group)
        /\ gameLast.old # 0 => ~heap[gameLast.old].is_active

\* C14 as stated: start_game(g) with no game stored succeeds and
\* has_active_game(g) is true; end_game(g) returns true and has_active_game(g)
\* is false, or returns false when nothing is stored; start_game(g) while a
\* game is active clears the old state's flag and stores a fresh state.
C14_AsStated ==
    /\ EndGameAsClaimed
    /\ gameLast.op = "start_game" =>
          /\ gameLast.ret = "success"
          /\ has_active_game(TheGames, heap, gameLast.group)
          /\ get_game(TheGames, gameLast.group) = gameLast.value
          /\ gameLast.old # 0 =>
                ~heap[gameLast.old].is_active /\ gameLast.value # gameLast.old

\* C14, amended: start_game(g) succeeds unless create_game raises (the
\* roulette's never does); when it succeeds has_active_game(g) is true and
\* the stored state is a fresh object, when it fails nothing is stored for
\* g; in both cases a state stored before has its flag cleared.  end_game(g)
\* returns true and has_active_game(g) is false, or returns false when
\* nothing is stored.  No ended state object is ever returned again.
C14_GameLifecycle ==
    /\ [](/\ EndGameAsClaimed
          /\ gameLast.op = "start_game" =>
                /\ gameLast.ret \in {"success", "fail"}
                /\ gameLast.kind = "highnoon" => gameLast.ret = "success"
                /\ gameLast.ret = "success" =>
                      /\ has_active_game(TheGames, heap, gameLast.group)
                      /\ get_game(TheGames, gameLast.group) = gameLast.value
                      /\ gameLast.value # gameLast.old
                /\ gameLast.ret = "fail" =>
                      get_game(TheGames, gameLast.group) = 0
                /\ gameLast.old # 0 => ~heap[gameLast.old].is_active)
    /\ NeverTheOldObject

\* start_game has replaced the active game of a group
C14_Witness ==
    /\ gameLast.op = "start_game" /\ gameLast.ret = "success"
    /\ gameLast.old # 0 /\ ~heap[gameLast.old].is_active
    /\ has_active_game(TheGames, heap, gameLast.group)

\* C15: the math-puzzle start command issued while a puzzle is active in the
\* group is refused and leaves the services' maps and every state object as
\* they were; the roulette start command issued while a roulette game is
\* active succeeds, ends the old game and stores a new one with shot count 0.
C15_RestartPolicy ==
    /\ [][gameLast'.op = "math_start"
          /\ has_active_game(games["math_soup"], heap, gameLast'.group)
          => /\ gameLast'.ret = "refused"
             /\ games' = games /\ heap' = heap]_vars
    /\ [][gameLast'.op = "highnoon_start"
          /\ has_active_game(games["highnoon"], heap, gameLast'.group)
          => /\ gameLast'.ret = "success"
             /\ gameLast'.value \notin DOMAIN heap
             /\ get_game(games'["highnoon"], gameLast'.group) = gameLast'.value
             /\ heap'[gameLast'.value].is_active
             /\ heap'[gameLast'.value].shot_count = 0
             /\ ~heap'[gameLast'.old].is_active]_vars

\* a math-puzzle start has been refused in a group whose puzzle has been
\* played on
C15_Witness ==
    /\ gameLast.op = "math_start" /\ gameLast.ret = "refused"
    /\ gameLast.old # 0 /\ get_game(TheGames, gameLast.group) = gameLast.old
    /\ heap[gameLast.old].question_count + heap[gameLast.old].guess_count > 0

(***************************************************************************)
(* Claims about the service singletons, checked under SpecSingleton        *)
(***************************************************************************)
\* the instance the class-level maps hold for a type; 0 when there is none
InstanceOf(insts, cls) ==
    IF cls \in DOMAIN insts.service THEN insts.service[cls]
    ELSE IF cls \in DOMAIN insts.game THEN insts.game[cls]
    ELSE 0

AllServiceTypes == ServiceTypes \cup GameServiceTypes

\* every get_instance call of a type returns the instance the first one
\* returned, and two types never share an instance
OneInstancePerType ==
    /\ [](instLast.op = "get_instance" =>
             instLast.ret = InstanceOf(instances, instLast.cls))
    /\ [](\A c \in AllServiceTypes, d \in AllServiceTypes :
             c # d /\ InstanceOf(instances, c) # 0 =>
                 InstanceOf(instances, c) # InstanceOf(instances, d))
    /\ [][\A c \in AllServiceTypes :
             InstanceOf(instances, c) # 0 =>
                 InstanceOf(instances', c) = InstanceOf(instances, c)]_vars

\* C16: for every service type, the game services included, get_instance
\* always returns the same instance, distinct types have distinct instances,
\* and a repeated get_instance call resets nothing the instance holds: the
\* map of games, the game states, the repository of the math puzzle.
C16_Singleton ==
    /\ OneInstancePerType
    /\ [][instLast'.op = "get_instance" /\ ~instLast'.fresh =>
             games' = games /\ heap' = heap /\ repo' = repo]_vars

\* C17: in one process the body of BanService.initialize runs exactly once,
\* whatever explicit initialize calls and operations are made; it has run
\* when an operation has read the set; and once it has run no call loads
\* the file again: the in-memory set changes only by ban and unban.
C17_InitOnce ==
    /\ [](banSvc.loads <= 1)
    /\ [](banLast.op \in {"initialize", "is_banned", "ban", "unban"} =>
             banSvc.initialized /\ banSvc.loads = 1)
    /\ [][banSvc.initialized /\ banLast'.op # "new" =>
             /\ banSvc'.loads = banSvc.loads
             /\ banned' # banned => banLast'.op \in {"ban", "unban"}]_vars

\* initialize has been called again on a loaded service whose in-memory set
\* differs from what banned.json holds
C17_Witness ==
    /\ banLast.op = "initialize" /\ ~banLast.first
    /\ banLast.prevOp = "ban"
    /\ banned # banFile
    /\ banSvc.loads = 1

(***************************************************************************)
(* Claims about the plugin registry, checked under SpecRegistry            *)
(***************************************************************************)
\* C18: register(info) with a key that is present changes neither the
\* plugin map nor the command map; get_plugin(key) returns the info that
\* was registered first under the key; and the number of registered plugins
\* never goes down except by clear.
C18_WriteOnce ==
    /\ [](regLast.op = "register" /\ regLast.key \in DOMAIN regLast.before.plugins
             => registry = regLast.before)
    /\ [](regLast.op = "get_plugin" =>
             regLast.ret = IF regLast.key \in DOMAIN regLast.first
                           THEN regLast.first[regLast.key] ELSE NoPlugin)
    /\ [](\A key \in DOMAIN regLast.first :
             get_plugin(registry, key) = regLast.first[key])
    /\ [][regLast'.op # "clear" =>
             get_plugin_count(registry') >= get_plugin_count(registry)]_vars

\* a second, different info has been registered under a key that was
\* present, with a command that was mapped to another key
C18_Witness ==
    /\ regLast.op = "register"
    /\ regLast.key \in DOMAIN regLast.before.plugins
    /\ regLast.info # regLast.before.plugins[regLast.key]
    /\ regLast.info.command \in DOMAIN regLast.before.commands
    /\ regLast.before.commands[regLast.info.command] # regLast.key

(***************************************************************************)
(* Claims about the chat history, checked under SpecChat                   *)
(***************************************************************************)
\* the deque of a group in a history map (empty when the group has none)
Stored(h, group_id) == IF group_id \in DOMAIN h THEN h[group_id] ELSE << >>

\* C19: a group never holds more than max_history_per_group messages, the
\* messages it holds are in arrival order, and recording a message into a
\* full history drops the oldest one and nothing else (into a history that
\* is not full, nothing); the other groups are left as they were.
C19_BoundedFifo ==
    /\ \A g \in DOMAIN history :
          /\ Len(history[g]) <= max_history_per_group
          /\ \A i, j \in 1 .. Len(history[g]) :
                i < j => history[g][i].n < history[g][j].n
    /\ chatLast.op = "record_message" =>
          LET g == chatLast.group_id
              was == Stored(chatLast.before, g)
              kept == IF Len(was) = max_history_per_group THEN Tail(was) ELSE was
          IN  /\ history[g] = kept \o chatLast.ret
              /\ \A o \in Groups \ {g} :
                    Stored(history, o) = Stored(chatLast.before, o)

\* a message has been recorded into a full history
C19_Witness ==
    /\ chatLast.op = "record_message"
    /\ Len(Stored(chatLast.before, chatLast.group_id)) = max_history_per_group

\* C20: get_messages(g, n) with n >= 0 returns at most min(n, stored)
\* entries, and what it returns is the most recent eligible messages, in
\* arrival order, the most recent one last.
C20_RecentMessages ==
    chatLast.op = "get_messages" /\ chatLast.limit >= 0 =>
        LET stored == Stored(history, chatLast.group_id)
            eligible == Eligible(stored, chatLast.include_bot)
            ret == chatLast.ret
        IN  /\ Len(ret) <= Min(chatLast.limit, Len(stored))
            /\ Len(ret) <= Len(eligible)
            /\ ret = SubSeq(eligible, Len(eligible) - Len(ret) + 1, Len(eligible))

(***************************************************************************)
(* Claims about the cooldown, checked under SpecCooldown                   *)
(***************************************************************************)
\* C21: check_cooldown(g) is true while set_cooldown(g) has never been
\* called; after set_cooldown(g) at time t it is false before t + interval
\* and true from t + interval on; and set_cooldown of one group changes
\* check_cooldown of no other group at any time.
C21_CooldownGate ==
    /\ cdLast.op = "check_cooldown" =>
          cdLast.ret = (\/ cdLast.group_id \notin DOMAIN cdLast.setAt
                        \/ cdLast.at >= cdLast.setAt[cdLast.group_id]
                                           + random_reply_cooldown)
    /\ cdLast.op = "set_cooldown" =>
          \A o \in Groups \ {cdLast.group_id}, ct \in 0 .. MaxClock :
              check_cooldown(cooldown, o, ct) = check_cooldown(cdLast.before, o, ct)

\* check_cooldown was called exactly one interval after set_cooldown
C21_Witness ==
    /\ cdLast.op = "check_cooldown"
    /\ cdLast.group_id \in DOMAIN cdLast.setAt
    /\ cdLast.at = cdLast.setAt[cdLast.group_id] + random_reply_cooldown
    /\ cdLast.ret

(***************************************************************************)
(* Claims about the random reply, checked under SpecRandomReply            *)
(***************************************************************************)
\* C22: in one group a random reply is triggered no sooner than one
\* cooldown interval after the reply triggered before it, whatever other
\* handlers are waiting for the AI at the time; while a handler waits, a
\* message of its group within the interval is refused by check_cooldown.
C22_RateLimit ==
    /\ [][/\ chatLast' # chatLast   \* the step handled a message
           /\ cdLast'.op = "handle_message"
           /\ cdLast'.ret = "triggered"
           /\ cdLast'.group_id \in DOMAIN cdLast.trig =>
             cdLast'.at - cdLast.trig[cdLast'.group_id] >= random_reply_cooldown]_vars
    /\ [](\A r \in replying :
             /\ r.group_id \in DOMAIN cooldown
             /\ r.group_id \in DOMAIN cdLast.trig
             /\ cooldown[r.group_id] = cdLast.trig[r.group_id])

\* a reply has been triggered in a group exactly one interval after the
\* one before it, whose handler is still waiting for the AI
C22_Witness ==
    /\ cdLast.op = "handle_message"
    /\ cdLast.ret = "triggered"
    /\ cdLast.group_id \in DOMAIN cdLast.prevTrig
    /\ cdLast.at = cdLast.prevTrig[cdLast.group_id] + random_reply_cooldown
    /\ \E r \in replying : r.group_id = cdLast.group_id /\ r.task # cdLast.task

(***************************************************************************)
(* Claims about long puzzle games, checked under SpecQuestions             *)
(***************************************************************************)
\* C23: the question count of a puzzle game is at most 20 in every
\* reachable state, and a question asked after 20 have been counted is not
\* answered.
C23_QuestionLimit ==
    /\ \A i \in DOMAIN heap : heap[i].question_count <= QUESTION_LIMIT
    /\ gameLast.op = "ask_question" /\ gameLast.ret \in JudgeAnswers =>
          heap[gameLast.value].question_count <= QUESTION_LIMIT

(***************************************************************************)
(* Claims about the replies of the status control, checked under           *)
(* SpecStatus                                                              *)
(***************************************************************************)
\* C24: the feature-status listing is sent only in a request in which a
\* token presented by the sender was verified successfully.
C24_StatusProtected ==
    last.op = "status_control" /\ last.ret.reply = "status" => last.ret.verified

(***************************************************************************)
(* Claims about concurrent bans, checked under SpecConcurrentBan           *)
(***************************************************************************)
\* two tasks have banned two different users, the second while the first
\* was waiting in its handler, and both writes succeeded
ConcurrentBans(t, o) ==
    /\ t # o
    /\ pc[t] # "idle" /\ pc[o] # "idle"
    /\ run[t].reply = "ban_done" /\ run[o].reply = "ban_done"
    /\ run[t].target # run[o].target
    /\ t \in run[o].during

\* the in-memory set holds both users and banned.json only one of them
LostUpdate(t, o) ==
    /\ {run[t].target, run[o].target} \subseteq banned
    /\ Cardinality({run[t].target, run[o].target} \cap banFile) = 1

C26_FailureUnchanged ==
    banLast.op \in {"ban", "unban"} /\ banLast.ret = "fail" =>
        /\ banned = banLast.before
        /\ is_banned(banned, banLast.user) = is_banned(banLast.before, banLast.user)
        /\ banLast.before = banFile => banned = banFile

(***************************************************************************)
(* Further claims about the game services, checked under SpecGame          *)
(***************************************************************************)
\* C27 as stated: a start_game(g) that returns failure leaves the group's
\* stored game as it was, so a game that was active is still active.
C27_AsStated ==
    gameLast.op = "start_game" /\ gameLast.ret = "fail" =>
        /\ get_game(TheGames, gameLast.group) = gameLast.old
        /\ gameLast.old # 0 => heap[gameLast.old].is_active

\* C27, amended: start_game(g) returns failure exactly when create_game
\* raises, whatever is stored, and a start_game(g) that returns failure
\* leaves nothing stored for the group: a game that was stored before the
\* call has been ended, its flag cleared.
C27_FailedStart ==
    /\ \A g \in Groups, c \in Creations(gameLast.kind) :
          LET r == start_game(TheGames, heap, gameLast.kind, g, c) IN
          (r.ret = "fail") = create_game_raises(gameLast.kind, c)
    /\ gameLast.op = "start_game" /\ gameLast.ret = "fail" =>
          /\ get_game(TheGames, gameLast.group) = 0
          /\ ~has_active_game(TheGames, heap, gameLast.group)
          /\ gameLast.old # 0 => ~heap[gameLast.old].is_active

\* start_game has failed in a group that had a game stored
C27_Witness ==
    gameLast.op = "start_game" /\ gameLast.ret = "fail" /\ gameLast.old # 0

\* C28: every state object held in the map of a game service has its flag
\* set, so has_active_game(g) is true exactly when get_game(g) returns a
\* state, and get_active_games_count() is the number of groups in the map.
C28_StoredImpliesActive ==
    \A k \in GameKinds :
        /\ \A g \in DOMAIN games[k] : heap[games[k][g]].is_active
        /\ \A g \in Groups :
              has_active_game(games[k], heap, g) = (get_game(games[k], g) # 0)
        /\ get_active_games_count(games[k], heap) = Cardinality(DOMAIN games[k])

\* a game has just been ended by a guess, a shot or end_game while the game
\* of another group is stored
C28_Witness ==
    /\ gameLast.op \in {"end_game", "make_guess", "fire"}
    /\ gameLast.ret \in {"true", "correct", "hit"}
    /\ ~heap[gameLast.old].is_active
    /\ DOMAIN TheGames # {}

(***************************************************************************)
(* Claims about whole roulette games, checked under SpecRoulette           *)
(***************************************************************************)
\* C29: an active roulette game has its bullet at 1..6 and a shot count of
\* at least 0 and less than the bullet position; the shot that makes the
\* count equal to the bullet position, and no other, ends the game; no game
\* is active after six shots; and the index of the message of a safe shot
\* is one of 0..4.
C29_RouletteBounds ==
    /\ [](\A g \in DOMAIN games["highnoon"] :
             LET s == heap[games["highnoon"][g]] IN
             /\ s.is_active
             /\ s.bullet_pos \in BulletPositions
             /\ 0 <= s.shot_count /\ s.shot_count < s.bullet_pos
             /\ s.shot_count < 6)
    /\ [](gameLast.op = "fire" /\ gameLast.ret = "safe" =>
             SafeStatementIndex(heap[gameLast.value].shot_count)
                 \in 0 .. NumStatements - 1)
    /\ [][gameLast'.op = "fire" =>
             LET game == get_game(games["highnoon"], gameLast'.group) IN
             /\ game # 0
             /\ (gameLast'.ret = "hit") =
                   (heap[game].shot_count + 1 = heap[game].bullet_pos)
             /\ gameLast'.ret = "hit" =>
                   /\ ~heap'[game].is_active
                   /\ get_game(games'["highnoon"], gameLast'.group) = 0
             /\ gameLast'.ret = "safe" =>
                   /\ heap'[game].is_active
                   /\ heap'[game].shot_count = heap[game].shot_count + 1]_vars

\* the fifth shot at a game was safe
C29_Witness ==
    /\ gameLast.op = "fire" /\ gameLast.ret = "safe"
    /\ heap[gameLast.value].shot_count = 5
    /\ SafeStatementIndex(heap[gameLast.value].shot_count) = NumStatements - 1

(***************************************************************************)
(* A further claim about the math puzzle, checked under SpecGame           *)
(***************************************************************************)
\* C30: once a puzzle game has ended, no answer judged against it is sent,
\* and the ask_question call that was waiting for the judge when the game
\* ended changes neither its question count nor its history.
C30_NoActivityOnEnded ==
    /\ [](gameLast.op = "ask_question" /\ gameLast.ret \in JudgeAnswers =>
             heap[gameLast.value].is_active)
    /\ [][/\ gameLast'.op = "ask_question"
           /\ gameLast'.ret # "waiting"
           /\ ~heap[gameLast'.value].is_active =>
             LET game == gameLast'.value
                 after == ask_question_end(heap, game, gameLast'.ret)[game]
             IN  /\ after.question_count = heap[game].question_count
                 /\ after.history = heap[game].history]_vars

====
